---- MODULE Spec2Model ----
(***************************************************************************)
(* Multi-provider streaming chat gateway of urbs44/rag-system.             *)
(*                                                                         *)
(* Text is modelled as a sequence of one-character strings, bytes as a     *)
(* sequence of byte names: an ASCII character is its own byte, the one     *)
(* two-byte character of the alphabet, e-acute, is the bytes "C3" "A9".    *)
(***************************************************************************)
EXTENDS Integers, Sequences, FiniteSets, TLC

VARIABLES
    \* ---- server side of one chat request (api/chat route)
    req,              \* the parsed request body
    srvPc,            \* position of the POST handler / adapter
    invoked,          \* adapters invoked for the request, in order
    resp,             \* the HTTP response, or NoResp
    wire,             \* chunks enqueued on the ReadableStream, in order
    streamState,      \* "none" | "readable" | "closed" | "errored"
    totalIn,          \* totalInputTokens of the running adapter
    totalOut,         \* totalOutputTokens of the running adapter
    currentThreadId,  \* handleOpenAI's currentThreadId
    vendorStream,     \* events the vendor stream has still to yield
    upstream,         \* events the vendor stream has yielded so far
    session,          \* what the adapter handed to the model vendor
    \* ---- vendor side (OpenAI threads)
    threads,          \* thread id -> messages appended to it
    vendorCalls,      \* vendor calls made for the request, in order
    \* ---- transport between the route and the browser
    deliveries,       \* chunks still to be returned by reader.read()
    plan,             \* how the transport cut the stream
    \* ---- client side (ChatInterface.handleSubmit)
    cliPc,            \* position of handleSubmit
    assistantContent, \* the running buffer of the turn
    utf8Pending,      \* bytes held back by TextDecoder({stream: true})
    tracked,          \* trackUsage calls of the turn, in order
    devLog,           \* parse errors logged by the read loop
    chatMessages,     \* the messages state of ChatInterface
    isLoading,        \* the isLoading state of ChatInterface
    turns,            \* submissions made so far
    assistantMsgId,   \* id of the in-flight assistant message
    currentMessages,  \* handleSubmit's currentMessages
    \* ---- browser storage, shared by chat and upload
    ls,               \* localStorage: the OpenAI resource handles
    \* ---- upload route (api/upload) and the vendor's assistants
    up,               \* per upload request: position and locals
    assistants,       \* assistant id -> its vector_store_ids, for those that exist
    nAssistants,      \* assistants created so far (ids are 1..nAssistants)
    nVectorStores,    \* vector stores created so far (ids are 1..nVectorStores)
    vsFile,           \* per upload request: vendor status of its vector store file
    uploads,          \* upload requests started so far
    \* ---- one vector store and the vendor's file objects
    attached,         \* the store's vector store files, in the vendor's order
    fileObjects,      \* ids of the file objects that exist
    rm,               \* one deleteVectorStoreFile call: position and locals
    lst,              \* one listVectorStoreFiles call: position and locals
    \* ---- key validation route (api/validate-key)
    vk,               \* one validation request: position, body, vendor calls, response
    \* ---- file list route (GET api/files)
    lr,               \* one listing request: position, headers, error caught, response
    \* ---- vendor side (Gemini files)
    geminiFiles       \* the files the vendor holds under the key, in listing order

chatVars == <<req, srvPc, invoked, resp, wire, streamState, totalIn, totalOut,
              currentThreadId, vendorStream, upstream, session, threads, vendorCalls>>
linkVars == <<deliveries, plan>>
readVars == <<cliPc, assistantContent, utf8Pending, tracked, devLog>>
convVars == <<chatMessages, isLoading, turns, assistantMsgId, currentMessages>>
fileVars == <<attached, fileObjects, rm, lst, vk, lr, geminiFiles>>
upVars   == <<up, assistants, nAssistants, nVectorStores, vsFile, uploads, fileVars>>
vars == <<chatVars, linkVars, readVars, convVars, ls, upVars>>

----------------------------------------------------------------------------
(* Characters and bytes *)

QUOTE  == "\""
BSLASH == "\\"
NL     == "\n"
TAB    == "\t"
EACUTE == "e-acute"
REPLACEMENT == "U+FFFD"

Digits == <<"0", "1", "2", "3", "4", "5", "6", "7", "8", "9">>
DigitSet == {Digits[i] : i \in 1..10}
ControlChars == {NL, TAB}

\* The concatenation of a sequence of sequences (by halves, to keep the
\* evaluation shallow)
RECURSIVE Concat(_)
Concat(ss) ==
    IF Len(ss) = 0 THEN <<>>
    ELSE IF Len(ss) = 1 THEN ss[1]
    ELSE LET h == Len(ss) \div 2 IN
         Concat(SubSeq(ss, 1, h)) \o Concat(SubSeq(ss, h + 1, Len(ss)))

\* s.slice(n)
Slice(s, n) == SubSeq(s, n + 1, Len(s))

\* s.startsWith(p)
StartsWith(s, p) == Len(s) >= Len(p) /\ SubSeq(s, 1, Len(p)) = p

\* s.split('\n'): the pieces between separators, empty pieces included
SplitLines(s) ==
    LET nl == {i \in 1..Len(s) : s[i] = NL}
        n == Cardinality(nl)
        Kth(k) == CHOOSE i \in nl : Cardinality({j \in nl : j <= i}) = k
        first(k) == IF k = 1 THEN 1 ELSE Kth(k - 1) + 1
        last(k) == IF k = n + 1 THEN Len(s) ELSE Kth(k) - 1
    IN [k \in 1..(n + 1) |-> SubSeq(s, first(k), last(k))]

\* TextEncoder.encode: UTF-8
Utf8Encode(s) ==
    Concat([i \in 1..Len(s) |-> IF s[i] = EACUTE THEN <<"C3", "A9">> ELSE <<s[i]>>])

\* TextDecoder.decode(value, {stream: true}): an incomplete sequence at the
\* end of the input is held back for the next call, a malformed one becomes
\* U+FFFD. Result: the text and the bytes held back.
Utf8Decode(b) ==
    LET out(i) ==
            IF b[i] = "C3" THEN
                IF i = Len(b) THEN <<>>
                ELSE IF b[i + 1] = "A9" THEN <<EACUTE>> ELSE <<REPLACEMENT>>
            ELSE IF b[i] = "A9" THEN
                IF i > 1 /\ b[i - 1] = "C3" THEN <<>> ELSE <<REPLACEMENT>>
            ELSE <<b[i]>>
    IN [text |-> Concat([i \in 1..Len(b) |-> out(i)]),
        pending |-> IF b # <<>> /\ b[Len(b)] = "C3" THEN <<"C3">> ELSE <<>>]

Utf8DecodeStream(pending, value) == Utf8Decode(pending \o value)

----------------------------------------------------------------------------
(* JSON, as far as the wire format uses it: string literals, non-negative   *)
(* integers and the UsageSummary object.                                    *)

\* The escapes JSON.stringify writes and JSON.parse reads, as <<char, letter>>
Escapes == {<<QUOTE, QUOTE>>, <<BSLASH, BSLASH>>, <<NL, "n">>, <<TAB, "t">>}
\* JSON.parse also reads \/ ; JSON.stringify never writes it
ReadEscapes == Escapes \cup {<<"/", "/">>}

EscapeOf(c) ==
    IF \E e \in Escapes : e[1] = c
    THEN <<BSLASH, (CHOOSE e \in Escapes : e[1] = c)[2]>>
    ELSE <<c>>

EscapeAll(s) == Concat([i \in 1..Len(s) |-> EscapeOf(s[i])])

\* a frame built by pasting the text between quotes
JsonStringifyStringUnescaped(s) == <<QUOTE>> \o s \o <<QUOTE>>

\* JSON.stringify(text) of a string
JsonStringifyString(s) == <<QUOTE>> \o EscapeAll(s) \o <<QUOTE>>

RECURSIVE NatToChars(_)
NatToChars(n) ==
    IF n < 10 THEN <<Digits[n + 1]>>
    ELSE NatToChars(n \div 10) \o <<Digits[(n % 10) + 1]>>

\* No thread handle: undefined, null and "" are all falsy
NoThread == <<>>

LitUsageOpen == <<"{", QUOTE, "u", "s", "a", "g", "e", QUOTE, ":", "{",
                  QUOTE, "i", "n", "p", "u", "t", "T", "o", "k", "e", "n", "s", QUOTE, ":">>
LitOutput    == <<",", QUOTE, "o", "u", "t", "p", "u", "t", "T", "o", "k", "e", "n", "s", QUOTE, ":">>
LitModel     == <<",", QUOTE, "m", "o", "d", "e", "l", QUOTE, ":">>
LitThread    == <<",", QUOTE, "t", "h", "r", "e", "a", "d", "I", "d", QUOTE, ":">>

\* JSON.stringify({usage: {inputTokens, outputTokens, model}, threadId}):
\* a key whose value is undefined is left out
JsonStringifyUsage(inTok, outTok, model, threadId) ==
    LitUsageOpen \o NatToChars(inTok) \o LitOutput \o NatToChars(outTok)
    \o LitModel \o JsonStringifyString(model) \o <<"}">>
    \o (IF threadId = NoThread THEN <<>> ELSE LitThread \o JsonStringifyString(threadId))
    \o <<"}">>

ParseFail == [ok |-> FALSE]

\* A string literal starting at t[i]: its value and the index after it
RECURSIVE ScanString(_, _, _)
ScanString(t, i, acc) ==
    IF i > Len(t) THEN ParseFail
    ELSE IF t[i] = QUOTE THEN [ok |-> TRUE, kind |-> "string", val |-> acc, next |-> i + 1]
    ELSE IF t[i] = BSLASH THEN
        IF i + 1 <= Len(t) /\ \E e \in ReadEscapes : e[2] = t[i + 1]
        THEN ScanString(t, i + 2,
                 Append(acc, (CHOOSE e \in ReadEscapes : e[2] = t[i + 1])[1]))
        ELSE ParseFail
    ELSE IF t[i] \in ControlChars THEN ParseFail
    ELSE ScanString(t, i + 1, Append(acc, t[i]))

ParseStringAt(t, i) ==
    IF i <= Len(t) /\ t[i] = QUOTE THEN ScanString(t, i + 1, <<>>) ELSE ParseFail

DigitValue(c) == (CHOOSE k \in 1..10 : Digits[k] = c) - 1

RECURSIVE ScanDigits(_, _, _)
ScanDigits(t, i, acc) ==
    IF i <= Len(t) /\ t[i] \in DigitSet
    THEN ScanDigits(t, i + 1, 10 * acc + DigitValue(t[i]))
    ELSE [ok |-> TRUE, kind |-> "number", val |-> acc, next |-> i]

\* A non-negative integer starting at t[i]; a leading zero ends the number
ParseNatAt(t, i) ==
    IF i > Len(t) \/ t[i] \notin DigitSet THEN ParseFail
    ELSE IF t[i] = "0" THEN [ok |-> TRUE, kind |-> "number", val |-> 0, next |-> i + 1]
    ELSE ScanDigits(t, i, 0)

LitAt(t, i, lit) == i + Len(lit) - 1 <= Len(t) /\ SubSeq(t, i, i + Len(lit) - 1) = lit

\* The object JsonStringifyUsage writes, starting at t[1]
ParseUsageObject(t) ==
    IF ~LitAt(t, 1, LitUsageOpen) THEN ParseFail
    ELSE LET a == ParseNatAt(t, Len(LitUsageOpen) + 1) IN
    IF ~a.ok \/ ~LitAt(t, a.next, LitOutput) THEN ParseFail
    ELSE LET b == ParseNatAt(t, a.next + Len(LitOutput)) IN
    IF ~b.ok \/ ~LitAt(t, b.next, LitModel) THEN ParseFail
    ELSE LET m == ParseStringAt(t, b.next + Len(LitModel)) IN
    IF ~m.ok \/ ~LitAt(t, m.next, <<"}">>) THEN ParseFail
    ELSE LET u == [inputTokens |-> a.val, outputTokens |-> b.val, model |-> m.val]
             j == m.next + 1 IN
    IF LitAt(t, j, <<"}">>) /\ j = Len(t)
    THEN [ok |-> TRUE, kind |-> "object", usage |-> u, threadId |-> NoThread]
    ELSE IF ~LitAt(t, j, LitThread) THEN ParseFail
    ELSE LET h == ParseStringAt(t, j + Len(LitThread)) IN
    IF h.ok /\ LitAt(t, h.next, <<"}">>) /\ h.next = Len(t)
    THEN [ok |-> TRUE, kind |-> "object", usage |-> u, threadId |-> h.val]
    ELSE ParseFail

\* JSON.parse skips white space around the value
RECURSIVE TrimLeft(_)
TrimLeft(t) == IF t # <<>> /\ Head(t) \in {" ", TAB} THEN TrimLeft(Tail(t)) ELSE t

RECURSIVE TrimRight(_)
TrimRight(t) ==
    IF t # <<>> /\ t[Len(t)] \in {" ", TAB} THEN TrimRight(SubSeq(t, 1, Len(t) - 1)) ELSE t

\* JSON.parse(text): [ok |-> FALSE] stands for a SyntaxError
JsonParse(text) ==
    LET t == TrimRight(TrimLeft(text)) IN
    IF t = <<>> THEN ParseFail
    ELSE IF t[1] = QUOTE THEN
        LET r == ParseStringAt(t, 1) IN
        IF r.ok /\ r.next = Len(t) + 1 THEN r ELSE ParseFail
    ELSE IF t[1] \in DigitSet THEN
        LET r == ParseNatAt(t, 1) IN
        IF r.ok /\ r.next = Len(t) + 1 THEN r ELSE ParseFail
    ELSE IF t[1] = "{" THEN ParseUsageObject(t)
    ELSE ParseFail

----------------------------------------------------------------------------
(* Wire frames (api/chat route) *)

Undef == -1

\* x || 0 for a token count
OrZero(x) == IF x = Undef THEN 0 ELSE x

NoUsage == [none |-> TRUE]

\* `0:${JSON.stringify(text)}\n`, encoded
TextDeltaFrame(text) ==
    Utf8Encode(<<"0", ":">> \o JsonStringifyString(text) \o <<NL>>)

\* `2:${JSON.stringify({usage: {...}, threadId})}\n`, encoded
UsageFrame(inTok, outTok, model, threadId) ==
    Utf8Encode(<<"2", ":">> \o JsonStringifyUsage(inTok, outTok, model, threadId) \o <<NL>>)

IsTextDelta(chunk) == StartsWith(chunk, <<"0", ":">>)
IsUsageSummary(chunk) == StartsWith(chunk, <<"2", ":">>)

----------------------------------------------------------------------------
(* Client frame decoder: the read loop of ChatInterface.handleSubmit *)

ObjectObject == <<"[", "o", "b", "j", "e", "c", "t", " ", "O", "b", "j", "e", "c", "t", "]">>

\* assistantContent += text, for whatever JSON.parse returned
JsToString(r) ==
    CASE r.kind = "string" -> r.val
      [] r.kind = "number" -> NatToChars(r.val)
      [] OTHER -> ObjectObject

\* a loop body that keeps the newest fragment only
ProcessLineReplacing(st, line) ==
    IF StartsWith(line, <<"0", ":">>) /\ JsonParse(Slice(line, 2)).ok
    THEN [st EXCEPT !.content = JsToString(JsonParse(Slice(line, 2)))]
    ELSE st

\* One pass of the body of `for (const line of lines)`
ProcessLine(st, line) ==
    IF StartsWith(line, <<"0", ":">>) THEN
        LET r == JsonParse(Slice(line, 2)) IN
        IF r.ok THEN [st EXCEPT !.content = @ \o JsToString(r)]
        ELSE [st EXCEPT !.log = Append(@, "Parse error on line")]
    ELSE IF StartsWith(line, <<"2", ":">>) THEN
        LET meta == JsonParse(Slice(line, 2)) IN
        IF ~meta.ok THEN [st EXCEPT !.log = Append(@, "Usage parse error")]
        ELSE IF meta.kind = "object"
        THEN [st EXCEPT !.tracked = Append(@, meta.usage)]
        ELSE st
    ELSE st

RECURSIVE ProcessLines(_, _)
ProcessLines(st, lines) ==
    IF lines = <<>> THEN st
    ELSE ProcessLines(ProcessLine(st, Head(lines)), Tail(lines))

\* One pass of the body of `while (true)` for a chunk that reader.read() returned
DecodeChunk(st, value) ==
    LET d == Utf8DecodeStream(st.pending, value) IN
    ProcessLines([st EXCEPT !.pending = d.pending], SplitLines(d.text))

ReaderState == [content |-> assistantContent, tracked |-> tracked,
                log |-> devLog, pending |-> utf8Pending]

----------------------------------------------------------------------------
(* Requests *)

GptMini     == <<"g", "p", "t", "-", "4", "o", "-", "m", "i", "n", "i">>
GeminiFlash == <<"g", "e", "m", "i", "n", "i", "-", "2", ".", "5", "-", "f", "l", "a", "s", "h">>

\* provider = "gemini" by default: the default applies to a missing tag only
ProviderOf(r) == IF r.provider = "absent" THEN "gemini" ELSE r.provider

\* modelId || (provider === "openai" ? "gpt-4o-mini" : "gemini-2.5-flash")
EffectiveModel(r) ==
    IF r.model # <<>> THEN r.model
    ELSE IF ProviderOf(r) = "openai" THEN GptMini ELSE GeminiFlash

EffectiveApiKeyAsSent(r) == r.apiKey

\* apiKey || "": a key that is missing counts as the empty key
EffectiveApiKey(r) == IF r.apiKey = "absent" THEN "" ELSE r.apiKey

NoResp == [status |-> 0, kind |-> "none", error |-> ""]
StreamResp == [status |-> 200, kind |-> "stream", error |-> ""]

Throw == [kind |-> "throw"]

----------------------------------------------------------------------------
(* Initial values of the parts a specification does not exercise *)

Procs == {1, 2}

NoHandle == 0

NoResult == [status |-> 0, error |-> <<>>, assistantId |-> NoHandle, vectorStoreId |-> NoHandle]

IdleUpload == [pc |-> "idle", assistantIdParam |-> NoHandle, vectorStoreIdParam |-> NoHandle,
               retrieved |-> "none", vectorStore |-> NoHandle,
               assistantId |-> NoHandle, vectorStoreId |-> NoHandle,
               status |-> "none", polls |-> 0, madeA |-> {}, madeV |-> {},
               overlapped |-> FALSE, result |-> NoResult]

NoThreads == [t \in {} |-> <<>>]

NoSession == [docs |-> <<>>, history |-> <<>>, message |-> <<>>]

EmptyRequest == [json |-> "ok", messages |-> <<>>, apiKey |-> "", model |-> <<>>,
                 provider |-> "absent", assistantId |-> NoHandle, threadId |-> NoThread]

ChatIdle ==
    /\ req = EmptyRequest /\ srvPc = "idle" /\ invoked = <<>> /\ resp = NoResp
    /\ wire = <<>> /\ streamState = "none" /\ totalIn = 0 /\ totalOut = 0
    /\ currentThreadId = NoThread /\ vendorStream = <<>> /\ upstream = <<>>
    /\ session = NoSession /\ threads = NoThreads /\ vendorCalls = <<>>

LinkIdle == deliveries = <<>> /\ plan = [kind |-> "none", at |-> 0]

ReaderIdle ==
    /\ cliPc = "idle" /\ assistantContent = <<>> /\ utf8Pending = <<>>
    /\ tracked = <<>> /\ devLog = <<>>

NoId == <<"none", 0>>

ConvIdle ==
    /\ chatMessages = <<>> /\ isLoading = FALSE /\ turns = 0
    /\ assistantMsgId = NoId /\ currentMessages = <<>>

\* localStorage with nothing stored
EmptyStorage == [provider |-> "", geminiKey |-> "", openaiKey |-> "", model |-> <<>>,
                 assistantId |-> NoHandle, vectorStoreId |-> NoHandle, threadId |-> NoThread]

\* what find gives when no entry matches
NoVsFile == <<>>

IdleRemove == [pc |-> "idle", fileId |-> 0, vsFile |-> NoVsFile]

IdleList == [pc |-> "idle", files |-> <<>>, fileDetails |-> <<>>]

NoBody == [json |-> "none", apiKey |-> "undefined", provider |-> "absent"]

NoOutcome == [status |-> 0, includes |-> {}, code |-> "none"]

NoAnswer == [status |-> 0, valid |-> FALSE, warning |-> "", error |-> ""]

IdleValidate == [pc |-> "idle", body |-> NoBody, calls |-> <<>>, thrown |-> NoOutcome,
                 resp |-> NoAnswer, made |-> 0]

NoListing == [status |-> 0, files |-> <<>>, message |-> "", error |-> ""]

NoListError == [status |-> 0, message |-> <<>>]

IdleListRoute == [pc |-> "idle", apiKey |-> "", provider |-> "gemini", vectorStoreId |-> NoHandle,
                  asked |-> FALSE, thrown |-> NoListError, resp |-> NoListing]

FileHelpersIdle ==
    /\ attached = <<>> /\ fileObjects = {}
    /\ rm = IdleRemove /\ lst = IdleList
    /\ vk = IdleValidate /\ lr = IdleListRoute

FilesIdle == FileHelpersIdle /\ geminiFiles = <<>>

UploadRouteIdle ==
    /\ up = [p \in Procs |-> IdleUpload]
    /\ assistants = [a \in {} |-> <<>>]
    /\ nAssistants = 0 /\ nVectorStores = 0
    /\ vsFile = [p \in Procs |-> "none"]
    /\ uploads = 0

UploadIdle == FilesIdle /\ UploadRouteIdle

----------------------------------------------------------------------------
(* The three stream bodies: `start(controller)` of each adapter.  One action  *)
(* is one turn of `for await`, or the code after the loop, or the catch.      *)

\* what a step of the route leaves alone
requestVars == <<req, invoked, resp, currentThreadId, session, threads, vendorCalls,
                 linkVars, readVars, convVars, ls, upVars>>

Yield == /\ upstream' = Append(upstream, Head(vendorStream))
         /\ vendorStream' = Tail(vendorStream)

StreamOpen(pc) == srvPc = pc /\ streamState = "readable"

StreamCatchWithUsage(pc) ==
    /\ StreamOpen(pc)
    /\ vendorStream # <<>> /\ Head(vendorStream) = Throw
    /\ Yield
    /\ wire' = Append(wire, UsageFrame(totalIn, totalOut, EffectiveModel(req), NoThread))
    /\ streamState' = "errored"
    /\ srvPc' = "done"
    /\ UNCHANGED <<totalIn, totalOut>>

\* controller.error(e)
StreamCatch(pc) ==
    /\ StreamOpen(pc)
    /\ vendorStream # <<>> /\ Head(vendorStream) = Throw
    /\ Yield
    /\ streamState' = "errored"
    /\ srvPc' = "done"
    /\ UNCHANGED <<wire, totalIn, totalOut>>

StreamFinishNoThread(pc, threadId) ==
    /\ StreamOpen(pc)
    /\ vendorStream = <<>>
    /\ wire' = Append(wire, UsageFrame(totalIn, totalOut, EffectiveModel(req), NoThread))
    /\ streamState' = "closed"
    /\ srvPc' = "done"
    /\ UNCHANGED <<totalIn, totalOut, vendorStream, upstream>>

\* enqueue the UsageSummary, then controller.close()
StreamFinish(pc, threadId) ==
    /\ StreamOpen(pc)
    /\ vendorStream = <<>>
    /\ wire' = Append(wire, UsageFrame(totalIn, totalOut, EffectiveModel(req), threadId))
    /\ streamState' = "closed"
    /\ srvPc' = "done"
    /\ UNCHANGED <<totalIn, totalOut, vendorStream, upstream>>

GeminiFramesWithUsage(chunk) ==
    (IF chunk.text # <<>> THEN <<TextDeltaFrame(chunk.text)>> ELSE <<>>)
    \o (IF chunk.usage # NoUsage
        THEN <<UsageFrame(OrZero(chunk.usage.promptTokenCount),
                          OrZero(chunk.usage.candidatesTokenCount), <<"m">>, NoThread)>>
        ELSE <<>>)

\* handleGemini: frames enqueued for one chunk
GeminiFrames(chunk) ==
    IF chunk.text # <<>> THEN <<TextDeltaFrame(chunk.text)>> ELSE <<>>

GeminiChunkSumming ==
    /\ StreamOpen("gemini_stream")
    /\ vendorStream # <<>> /\ Head(vendorStream) # Throw
    /\ LET chunk == Head(vendorStream) IN
        /\ wire' = wire \o GeminiFrames(chunk)
        /\ IF chunk.usage # NoUsage
           THEN /\ totalIn' = totalIn + OrZero(chunk.usage.promptTokenCount)
                /\ totalOut' = totalOut + OrZero(chunk.usage.candidatesTokenCount)
           ELSE UNCHANGED <<totalIn, totalOut>>
    /\ Yield
    /\ UNCHANGED <<streamState, srvPc, requestVars>>

GeminiChunk ==
    /\ StreamOpen("gemini_stream")
    /\ vendorStream # <<>> /\ Head(vendorStream) # Throw
    /\ LET chunk == Head(vendorStream) IN
        /\ wire' = wire \o GeminiFrames(chunk)
        /\ IF chunk.usage # NoUsage
           THEN /\ totalIn' = OrZero(chunk.usage.promptTokenCount)
                /\ totalOut' = OrZero(chunk.usage.candidatesTokenCount)
           ELSE UNCHANGED <<totalIn, totalOut>>
    /\ Yield
    /\ UNCHANGED <<streamState, srvPc, requestVars>>

GeminiFinish == StreamFinish("gemini_stream", NoThread) /\ UNCHANGED requestVars

GeminiCatch == StreamCatch("gemini_stream") /\ UNCHANGED requestVars

\* handleOpenAI: frames enqueued for the content blocks of one message delta
RECURSIVE RunDeltaFrames(_)
RunDeltaFrames(blocks) ==
    IF blocks = <<>> THEN <<>>
    ELSE (IF Head(blocks).type = "text" /\ Head(blocks).value # <<>>
          THEN <<TextDeltaFrame(Head(blocks).value)>> ELSE <<>>)
         \o RunDeltaFrames(Tail(blocks))

RunEventEchoesAll ==
    /\ StreamOpen("run_stream")
    /\ vendorStream # <<>> /\ Head(vendorStream) # Throw
    /\ LET event == Head(vendorStream) IN
        /\ wire' = IF event.event = "thread.message.delta"
                   THEN wire \o RunDeltaFrames(event.content)
                   ELSE Append(wire, TextDeltaFrame(<<>>))
        /\ IF event.event = "thread.run.completed" /\ event.usage # NoUsage
           THEN /\ totalIn' = OrZero(event.usage.prompt_tokens)
                /\ totalOut' = OrZero(event.usage.completion_tokens)
           ELSE UNCHANGED <<totalIn, totalOut>>
    /\ Yield
    /\ UNCHANGED <<streamState, srvPc, requestVars>>

RunEvent ==
    /\ StreamOpen("run_stream")
    /\ vendorStream # <<>> /\ Head(vendorStream) # Throw
    /\ LET event == Head(vendorStream) IN
        /\ wire' = IF event.event = "thread.message.delta"
                   THEN wire \o RunDeltaFrames(event.content) ELSE wire
        /\ IF event.event = "thread.run.completed" /\ event.usage # NoUsage
           THEN /\ totalIn' = OrZero(event.usage.prompt_tokens)
                /\ totalOut' = OrZero(event.usage.completion_tokens)
           ELSE UNCHANGED <<totalIn, totalOut>>
    /\ Yield
    /\ UNCHANGED <<streamState, srvPc, requestVars>>

RunFinish == StreamFinish("run_stream", currentThreadId) /\ UNCHANGED requestVars

RunCatch == StreamCatch("run_stream") /\ UNCHANGED requestVars

\* handleOpenAISimple: frames enqueued for one completion chunk
SimpleFramesAlways(chunk) == <<TextDeltaFrame(chunk.content)>>

SimpleFrames(chunk) ==
    IF chunk.content # <<>> THEN <<TextDeltaFrame(chunk.content)>> ELSE <<>>

SimpleChunk ==
    /\ StreamOpen("simple_stream")
    /\ vendorStream # <<>> /\ Head(vendorStream) # Throw
    /\ LET chunk == Head(vendorStream) IN
        /\ wire' = wire \o SimpleFrames(chunk)
        /\ IF chunk.usage # NoUsage
           THEN /\ totalIn' = OrZero(chunk.usage.prompt_tokens)
                /\ totalOut' = OrZero(chunk.usage.completion_tokens)
           ELSE UNCHANGED <<totalIn, totalOut>>
    /\ Yield
    /\ UNCHANGED <<streamState, srvPc, requestVars>>

SimpleFinish == StreamFinish("simple_stream", NoThread) /\ UNCHANGED requestVars

SimpleCatch == StreamCatch("simple_stream") /\ UNCHANGED requestVars

----------------------------------------------------------------------------
(* POST /api/chat and the adapters up to the point where the stream opens.  *)
(* One action is the code between two awaits.  A rejection of handleGemini  *)
(* or handleOpenAI is not caught by POST's try/catch (the promise is        *)
(* returned, not awaited): the framework answers it.                        *)

MaxHist == 2
MaxTurns == 2
MaxUploads == 3
MaxPolls == 1
MaxEvents == 2

JsonError(status, message) == [status |-> status, kind |-> "json", error |-> message]
Unhandled == [status |-> 500, kind |-> "unhandled", error |-> ""]

KeyMissing(r) ==
    IF ProviderOf(r) = "openai"
    THEN "No OpenAI API key configured. Please add one in Settings."
    ELSE "No Gemini API key configured. Please add one in Settings."

\* messages[messages.length - 1]
LastMessage(r) == r.messages[Len(r.messages)]

\* the scripts a vendor stream can follow: up to MaxEvents events, then the
\* end of the stream or a transport error
Scripts(events) ==
    LET runs == UNION { [1..k -> events] : k \in 0..MaxEvents }
    IN runs \cup { Append(r, Throw) : r \in runs }

GeminiEvents ==
    { [kind |-> "chunk", text |-> <<"a">>, usage |-> NoUsage],
      [kind |-> "chunk", text |-> <<>>,
       usage |-> [promptTokenCount |-> 3, candidatesTokenCount |-> 4]],
      [kind |-> "chunk", text |-> <<"b">>,
       usage |-> [promptTokenCount |-> 5, candidatesTokenCount |-> Undef]] }

RunEvents ==
    { [kind |-> "event", event |-> "thread.message.delta", usage |-> NoUsage,
       content |-> <<[type |-> "text", value |-> <<"a">>],
                     [type |-> "image_file", value |-> <<>>],
                     [type |-> "text", value |-> <<"b">>]>>],
      [kind |-> "event", event |-> "thread.message.delta", usage |-> NoUsage,
       content |-> <<[type |-> "text", value |-> <<>>]>>],
      [kind |-> "event", event |-> "thread.run.completed", content |-> <<>>,
       usage |-> [prompt_tokens |-> 6, completion_tokens |-> 7]],
      [kind |-> "event", event |-> "thread.run.failed", content |-> <<>>,
       usage |-> NoUsage] }

SimpleEvents ==
    { [kind |-> "chunk", content |-> <<"a">>, usage |-> NoUsage],
      [kind |-> "chunk", content |-> <<>>, usage |-> NoUsage],
      [kind |-> "chunk", content |-> <<>>,
       usage |-> [prompt_tokens |-> 8, completion_tokens |-> 9]] }

\* the ReadableStream is constructed and returned in a Response
OpenStream(pc, scripts) ==
    /\ srvPc' = pc
    /\ streamState' = "readable"
    /\ resp' = StreamResp
    /\ \E script \in scripts : vendorStream' = script

\* the handler's promise rejects
Reject ==
    /\ srvPc' = "failed"
    /\ resp' = Unhandled
    /\ UNCHANGED <<streamState, vendorStream>>

IsNotGemini(r) == ProviderOf(r) # "gemini"

\* provider === "openai"
IsOpenAI(r) == ProviderOf(r) = "openai"

\* POST down to the first await of the handler it calls
Post ==
    /\ srvPc = "POST"
    /\ IF req.json = "bad" THEN
            /\ resp' = JsonError(500, "Failed to generate response")
            /\ srvPc' = "done"
            /\ UNCHANGED <<invoked, currentThreadId, streamState, vendorStream>>
       ELSE IF EffectiveApiKey(req) = "" THEN
            /\ resp' = JsonError(400, KeyMissing(req))
            /\ srvPc' = "done"
            /\ UNCHANGED <<invoked, currentThreadId, streamState, vendorStream>>
       ELSE IF IsOpenAI(req) THEN
            IF req.assistantId = NoHandle THEN
                /\ invoked' = Append(invoked, "openai-simple")
                /\ srvPc' = "simple_create"
                /\ UNCHANGED <<resp, currentThreadId, streamState, vendorStream>>
            ELSE
                /\ invoked' = Append(invoked, "openai-run")
                /\ currentThreadId' = req.threadId
                /\ IF req.threadId = NoThread
                   THEN srvPc' = "run_thread" /\ UNCHANGED <<resp, streamState, vendorStream>>
                   ELSE IF req.messages = <<>> THEN Reject
                   ELSE srvPc' = "run_append" /\ UNCHANGED <<resp, streamState, vendorStream>>
       ELSE
            /\ invoked' = Append(invoked, "gemini")
            /\ srvPc' = "gemini_list"
            /\ UNCHANGED <<resp, currentThreadId, streamState, vendorStream>>
    /\ UNCHANGED <<req, wire, totalIn, totalOut, upstream, session, threads, vendorCalls,
                   linkVars, readVars, convVars, ls, upVars>>

\* fileManager.listFiles() is called without parameters, so the vendor
\* answers with one page of its default length; fileList.files is that page
GeminiPageLimit == 2

DocNames == <<"d1", "d2", "d3", "d4", "d5">>

\* what the vendor can hold: nothing, a file in processing before an active
\* one, and one active file more than a page takes
GeminiFileLists ==
    { <<>>,
      <<[state |-> "PROCESSING", displayName |-> "d2"],
        [state |-> "ACTIVE", displayName |-> "d1"]>>,
      [i \in 1..(GeminiPageLimit + 1) |-> [state |-> "ACTIVE", displayName |-> DocNames[i]]] }

GeminiFirstPage(all) ==
    SubSeq(all, 1, IF Len(all) < GeminiPageLimit THEN Len(all) ELSE GeminiPageLimit)

RECURSIVE DisplayNames(_)
DisplayNames(files) ==
    IF files = <<>> THEN <<>> ELSE <<Head(files).displayName>> \o DisplayNames(Tail(files))

IsActive(f) == f.state = "ACTIVE"

\* the two turns that open every Gemini chat
GroundingTurns(activeNames) ==
    << [role |-> "user", files |-> activeNames,
        text |-> <<"Here is the knowledge base containing all relevant documents for our session:",
                   "Please use these documents to answer my future questions.">>],
       [role |-> "model", files |-> <<>>,
        text |-> <<"Understood. I have processed the knowledge base and am ready to assist you.">>] >>

\* formattedHistory
FormattedHistory(msgs) ==
    [i \in 1..(Len(msgs) - 1) |->
        [role |-> IF msgs[i].role = "user" THEN "user" ELSE "model",
         files |-> <<>>, text |-> msgs[i].content]]

\* handleGemini from the answer of listFiles to the call of sendMessageStream
GeminiList ==
    /\ srvPc = "gemini_list"
    /\ vendorCalls' = Append(vendorCalls, "files.list")
    /\ \/ Reject /\ UNCHANGED session
       \/ LET files == GeminiFirstPage(geminiFiles)
              names == DisplayNames(SelectSeq(files, IsActive)) IN
            IF req.messages = <<>> THEN Reject /\ UNCHANGED session
            ELSE /\ session' = [docs |-> IF names = <<>> THEN <<"none">> ELSE names,
                                history |-> GroundingTurns(names) \o FormattedHistory(req.messages),
                                message |-> LastMessage(req).content]
                 /\ srvPc' = "gemini_send"
                 /\ UNCHANGED <<resp, streamState, vendorStream>>
    /\ UNCHANGED <<req, invoked, wire, totalIn, totalOut, currentThreadId, upstream, threads,
                   linkVars, readVars, convVars, ls, upVars>>

\* the answer of sendMessageStream; the stream is built and returned
GeminiSend(scripts) ==
    /\ srvPc = "gemini_send"
    /\ vendorCalls' = Append(vendorCalls, "sendMessageStream")
    /\ \/ Reject
       \/ OpenStream("gemini_stream", scripts)
    /\ UNCHANGED <<req, invoked, wire, totalIn, totalOut, currentThreadId, upstream, session,
                   threads, linkVars, readVars, convVars, ls, upVars>>

T0 == <<"t", "0">>
StaleThread == <<"t", "x">>

\* the id the vendor gives the next thread
FreshThread == <<"t", Digits[Cardinality(DOMAIN threads) + 1]>>

\* openai.beta.threads.create(), then the code up to messages.create
RunCreateThread ==
    /\ srvPc = "run_thread"
    /\ vendorCalls' = Append(vendorCalls, "threads.create")
    /\ \/ Reject /\ UNCHANGED <<threads, currentThreadId>>
       \/ /\ threads' = [t \in DOMAIN threads \cup {FreshThread} |->
                            IF t = FreshThread THEN <<>> ELSE threads[t]]
          /\ currentThreadId' = FreshThread
          /\ IF req.messages = <<>> THEN Reject
             ELSE srvPc' = "run_append" /\ UNCHANGED <<resp, streamState, vendorStream>>
    /\ UNCHANGED <<req, invoked, wire, totalIn, totalOut, upstream, session,
                   linkVars, readVars, convVars, ls, upVars>>

AppendedFullHistory(r) == [i \in 1..Len(r.messages) |-> r.messages[i].content]

\* the messages one call of messages.create adds to the thread
AppendedMessages(r) == <<LastMessage(r).content>>

RunWithoutAppend(scripts) ==
    /\ srvPc = "run_append"
    /\ vendorCalls' = Append(vendorCalls, "runs.stream")
    /\ OpenStream("run_stream", scripts)
    /\ UNCHANGED <<req, invoked, wire, totalIn, totalOut, currentThreadId, upstream, session,
                   threads, linkVars, readVars, convVars, ls, upVars>>

\* openai.beta.threads.messages.create(currentThreadId, ...), then
\* runs.stream(...) and the stream
RunAppend(scripts) ==
    /\ srvPc = "run_append"
    /\ \/ /\ vendorCalls' = Append(vendorCalls, "messages.create")
          /\ Reject
          /\ UNCHANGED threads
       \/ /\ currentThreadId \in DOMAIN threads
          /\ vendorCalls' = vendorCalls \o <<"messages.create", "runs.stream">>
          /\ threads' = [threads EXCEPT ![currentThreadId] = @ \o AppendedMessages(req)]
          /\ OpenStream("run_stream", scripts)
    /\ UNCHANGED <<req, invoked, wire, totalIn, totalOut, currentThreadId, upstream, session,
                   linkVars, readVars, convVars, ls, upVars>>

\* openai.chat.completions.create({stream: true, ...})
SimpleCreate(scripts) ==
    /\ srvPc = "simple_create"
    /\ vendorCalls' = Append(vendorCalls, "chat.completions.create")
    /\ session' = [docs |-> <<>>, message |-> <<>>,
                   history |-> <<[role |-> "system", content |-> <<"You are a helpful expert editorial assistant.">>]>>
                               \o req.messages]
    /\ \/ Reject
       \/ OpenStream("simple_stream", scripts)
    /\ UNCHANGED <<req, invoked, wire, totalIn, totalOut, currentThreadId, upstream, threads,
                   linkVars, readVars, convVars, ls, upVars>>

----------------------------------------------------------------------------
(* Transport: how the bytes of a finished stream reach reader.read() *)

WireBytes == Concat(wire)

\* one read per enqueued frame
DeliverFrames ==
    /\ streamState = "closed" /\ plan.kind = "none"
    /\ deliveries' = wire
    /\ plan' = [kind |-> "frames", at |-> 0]
    /\ UNCHANGED <<chatVars, readVars, convVars, ls, upVars>>

\* the whole stream in one read
DeliverWhole ==
    /\ streamState = "closed" /\ plan.kind = "none"
    /\ deliveries' = <<WireBytes>>
    /\ plan' = [kind |-> "whole", at |-> 0]
    /\ UNCHANGED <<chatVars, readVars, convVars, ls, upVars>>

\* the stream cut in two at a byte offset
DeliverSplit ==
    /\ streamState = "closed" /\ plan.kind = "none"
    /\ \E k \in 1..(Len(WireBytes) - 1) :
        /\ deliveries' = <<SubSeq(WireBytes, 1, k), SubSeq(WireBytes, k + 1, Len(WireBytes))>>
        /\ plan' = [kind |-> "split", at |-> k]
    /\ UNCHANGED <<chatVars, readVars, convVars, ls, upVars>>

----------------------------------------------------------------------------
(* Client read loop *)

\* setMessages(prev => ...) at the end of one pass of the read loop
UpdateAssistantMessage(prev, id, content) ==
    IF prev # <<>> /\ prev[Len(prev)].id = id
    THEN [prev EXCEPT ![Len(prev)].content = content]
    ELSE prev

ClientRead ==
    /\ cliPc = "reading"
    /\ deliveries # <<>>
    /\ LET st == DecodeChunk(ReaderState, Head(deliveries)) IN
        /\ assistantContent' = st.content
        /\ tracked' = st.tracked
        /\ devLog' = st.log
        /\ utf8Pending' = st.pending
        /\ chatMessages' = UpdateAssistantMessage(chatMessages, assistantMsgId, st.content)
    /\ deliveries' = Tail(deliveries)
    /\ UNCHANGED <<cliPc, plan, chatVars, isLoading, turns, assistantMsgId, currentMessages,
                   ls, upVars>>

\* reader.read() returns done; finally setIsLoading(false)
ClientReadDone ==
    /\ cliPc = "reading"
    /\ deliveries = <<>> /\ plan.kind \in {"frames", "whole", "split"}
    /\ cliPc' = "done"
    /\ isLoading' = FALSE
    /\ UNCHANGED <<assistantContent, tracked, devLog, utf8Pending, linkVars, chatVars,
                   chatMessages, turns, assistantMsgId, currentMessages, ls, upVars>>

----------------------------------------------------------------------------
(* Client settings (localStorage getters) and the rest of handleSubmit *)

Gpt4o          == <<"g", "p", "t", "-", "4", "o">>
Gpt4Turbo      == <<"g", "p", "t", "-", "4", "-", "t", "u", "r", "b", "o">>
Gemini15Flash  == <<"g", "e", "m", "i", "n", "i", "-", "1", ".", "5", "-", "f", "l", "a", "s", "h">>
Gemini15Pro    == <<"g", "e", "m", "i", "n", "i", "-", "1", ".", "5", "-", "p", "r", "o">>

GEMINI_MODELS == {GeminiFlash, Gemini15Flash, Gemini15Pro}
OPENAI_MODELS == {Gpt4o, GptMini, Gpt4Turbo}

\* stored === "openai" ? "openai" : "gemini"
getProvider(store) == IF store.provider = "openai" THEN "openai" ELSE "gemini"

\* the key of the current provider; a missing key is null, which the route
\* treats like the empty string (!apiKey)
getApiKey(store) ==
    IF getProvider(store) = "openai" THEN store.openaiKey ELSE store.geminiKey

\* a getter that trusts what is stored
getSelectedModelStored(store) ==
    IF store.model # <<>> THEN store.model
    ELSE IF getProvider(store) = "openai" THEN GptMini ELSE GeminiFlash

\* the stored model if it is one of the current provider's, else the default
getSelectedModel(store) ==
    LET models == IF getProvider(store) = "openai" THEN OPENAI_MODELS ELSE GEMINI_MODELS
    IN IF store.model # <<>> /\ store.model \in models THEN store.model
       ELSE IF getProvider(store) = "openai" THEN GptMini ELSE GeminiFlash

\* the body handleSubmit posts: the handles go along for openai only, and only
\* when stored
RequestBody(store, msgs) ==
    [json      |-> "ok",
     messages  |-> [i \in 1..Len(msgs) |-> [role |-> msgs[i].role, content |-> msgs[i].content]],
     apiKey    |-> getApiKey(store),
     model     |-> getSelectedModel(store),
     provider  |-> getProvider(store),
     assistantId |-> IF getProvider(store) = "openai" THEN store.assistantId ELSE NoHandle,
     threadId    |-> IF getProvider(store) = "openai" THEN store.threadId ELSE NoThread]

\* what the user can type: a question, or blanks only
UserInputs == {<<"q">>, <<" ">>}

\* content of the message the catch block appends
ErrorContent(cause) == <<"Error: ", cause>>

ErrorMessage(n, cause) ==
    [id |-> <<"error", n>>, role |-> "assistant", content |-> ErrorContent(cause)]

\* handleSubmit down to the fetch; the route starts on the posted body
SubmitWhileLoading ==
    /\ turns < MaxTurns
    /\ \E input \in UserInputs :
         /\ TrimLeft(input) # <<>>
         /\ LET userMsg == [id |-> <<"user", turns + 1>>, role |-> "user", content |-> input]
                msgs    == Append(chatMessages, userMsg)
            IN /\ currentMessages' = msgs
               /\ chatMessages' = msgs
               /\ req' = RequestBody(ls, msgs)
    /\ isLoading' = TRUE
    /\ turns' = turns + 1
    /\ cliPc' = "fetching"
    /\ assistantMsgId' = NoId
    /\ assistantContent' = <<>> /\ utf8Pending' = <<>> /\ tracked' = <<>> /\ devLog' = <<>>
    /\ srvPc' = "POST" /\ invoked' = <<>> /\ resp' = NoResp /\ wire' = <<>>
    /\ streamState' = "none" /\ totalIn' = 0 /\ totalOut' = 0
    /\ currentThreadId' = NoThread /\ vendorStream' = <<>> /\ upstream' = <<>>
    /\ session' = NoSession /\ vendorCalls' = <<>>
    /\ deliveries' = <<>> /\ plan' = [kind |-> "none", at |-> 0]
    /\ UNCHANGED <<threads, ls, upVars>>

Submit ==
    /\ ~isLoading
    /\ turns < MaxTurns
    /\ \E input \in UserInputs :
         /\ TrimLeft(input) # <<>>
         /\ LET userMsg == [id |-> <<"user", turns + 1>>, role |-> "user", content |-> input]
                msgs    == Append(chatMessages, userMsg)
            IN /\ currentMessages' = msgs
               /\ chatMessages' = msgs
               /\ req' = RequestBody(ls, msgs)
    /\ isLoading' = TRUE
    /\ turns' = turns + 1
    /\ cliPc' = "fetching"
    /\ assistantMsgId' = NoId
    /\ assistantContent' = <<>> /\ utf8Pending' = <<>> /\ tracked' = <<>> /\ devLog' = <<>>
    /\ srvPc' = "POST" /\ invoked' = <<>> /\ resp' = NoResp /\ wire' = <<>>
    /\ streamState' = "none" /\ totalIn' = 0 /\ totalOut' = 0
    /\ currentThreadId' = NoThread /\ vendorStream' = <<>> /\ upstream' = <<>>
    /\ session' = NoSession /\ vendorCalls' = <<>>
    /\ deliveries' = <<>> /\ plan' = [kind |-> "none", at |-> 0]
    /\ UNCHANGED <<threads, ls, upVars>>

FetchFailsNoFinally ==
    /\ cliPc = "fetching"
    /\ srvPc = "POST"
    /\ srvPc' = "idle"
    /\ chatMessages' = Append(chatMessages, ErrorMessage(turns, "Failed to fetch"))
    /\ isLoading' = isLoading
    /\ cliPc' = "done"
    /\ UNCHANGED <<req, invoked, resp, wire, streamState, totalIn, totalOut, currentThreadId,
                   vendorStream, upstream, session, threads, vendorCalls, linkVars,
                   assistantContent, utf8Pending, tracked, devLog, turns, assistantMsgId,
                   currentMessages, ls, upVars>>

\* clearChat: setMessages([]); the button is enabled at any time
clearChat ==
    /\ chatMessages' = <<>>
    /\ UNCHANGED <<chatVars, linkVars, readVars, isLoading, turns, assistantMsgId,
                   currentMessages, ls, upVars>>

\* fetch rejects: the request never reaches the route
FetchFails ==
    /\ cliPc = "fetching"
    /\ srvPc = "POST"
    /\ srvPc' = "idle"
    /\ chatMessages' = Append(chatMessages, ErrorMessage(turns, "Failed to fetch"))
    /\ isLoading' = FALSE
    /\ cliPc' = "done"
    /\ UNCHANGED <<req, invoked, resp, wire, streamState, totalIn, totalOut, currentThreadId,
                   vendorStream, upstream, session, threads, vendorCalls, linkVars,
                   assistantContent, utf8Pending, tracked, devLog, turns, assistantMsgId,
                   currentMessages, ls, upVars>>

HttpError(r) ==
    IF r.status = 400 THEN "HTTP 400" ELSE "HTTP 500"

\* the response arrives: a non-OK status throws, else the empty assistant
\* message is added and the read loop starts
ClientResponse ==
    /\ cliPc = "fetching"
    /\ resp # NoResp
    /\ IF resp.status # 200 THEN
            /\ chatMessages' = Append(chatMessages, ErrorMessage(turns, HttpError(resp)))
            /\ isLoading' = FALSE
            /\ cliPc' = "done"
            /\ UNCHANGED assistantMsgId
       ELSE
            /\ assistantMsgId' = <<"assistant", turns>>
            /\ chatMessages' = Append(currentMessages,
                                      [id |-> <<"assistant", turns>>, role |-> "assistant",
                                       content |-> <<>>])
            /\ cliPc' = "reading"
            /\ UNCHANGED isLoading
    /\ UNCHANGED <<chatVars, linkVars, assistantContent, utf8Pending, tracked, devLog,
                   turns, currentMessages, ls, upVars>>

\* an errored stream: the reader gets some of the chunks, then read() rejects
DeliverAborted ==
    /\ streamState = "errored"
    /\ plan.kind = "none"
    /\ \E k \in 0..Len(wire) :
         /\ deliveries' = SubSeq(wire, 1, k)
         /\ plan' = [kind |-> "aborted", at |-> k]
    /\ UNCHANGED <<chatVars, readVars, convVars, ls, upVars>>

\* a catch block with no finally after it
ClientReadErrorNoFinally ==
    /\ cliPc = "reading"
    /\ deliveries = <<>>
    /\ plan.kind = "aborted"
    /\ chatMessages' = Append(chatMessages, ErrorMessage(turns, "stream error"))
    /\ cliPc' = "done"
    /\ UNCHANGED <<chatVars, linkVars, assistantContent, utf8Pending, tracked, devLog,
                   isLoading, turns, assistantMsgId, currentMessages, ls, upVars>>

\* reader.read() rejects: the catch block appends the error message
ClientReadError ==
    /\ cliPc = "reading"
    /\ deliveries = <<>>
    /\ plan.kind = "aborted"
    /\ chatMessages' = Append(chatMessages, ErrorMessage(turns, "stream error"))
    /\ isLoading' = FALSE
    /\ cliPc' = "done"
    /\ UNCHANGED <<chatVars, linkVars, assistantContent, utf8Pending, tracked, devLog,
                   turns, assistantMsgId, currentMessages, ls, upVars>>

----------------------------------------------------------------------------
(* Upload: UploadZone.onDrop, POST /api/upload, getOrCreateAssistant,       *)
(* ensureVectorStore and uploadFileToVectorStore.  One action is the code   *)
(* between two awaits of one upload request; each request carries one file. *)

\* what a vendor call can fail with, whatever the state of the resource
VendorFaults == {<<"Connection error.">>, <<"invalid_api_key">>}

\* the vendor's answer for an assistant that does not exist
NotFoundError == <<"No assistant found">>

CatchesFaultsOnly(e) == e \in VendorFaults

\* catch (e) of getOrCreateAssistant: every error falls through to creation
CatchesRetrievalError(e) == TRUE

\* vector_store_ids of a newly created assistant
NewToolResources(vectorStoreId) == <<vectorStoreId>>

FileStatuses == {"in_progress", "completed", "failed", "cancelled"}

IngestNotFailed(status) == status # "failed"

\* the status with which uploadFileToVectorStore returns instead of throwing
IngestSucceeded(status) == status = "completed"

\* new Error(`File processing failed: ${status}`)
IngestionFailed(status) == <<"File processing failed: ", status>>

\* the catch block of POST /api/upload
UploadError(message) ==
    IF message = <<"invalid_api_key">>
    THEN [NoResult EXCEPT !.status = 401, !.error = <<"Invalid API key">>]
    ELSE [NoResult EXCEPT !.status = 500, !.error = <<"Upload failed: ">> \o message]

InFlight(p) == up[p].pc # "idle"

otherVars == <<chatVars, linkVars, readVars, convVars, fileVars>>

\* an error reaches the catch block of POST
Fail(p, message) ==
    up' = [up EXCEPT ![p].pc = "responded", ![p].result = UploadError(message)]

\* getOrCreateAssistant returns; handleOpenAIUpload goes on to the file
Return(p, assistantId, vectorStoreId, rec) ==
    up' = [up EXCEPT ![p] = [rec EXCEPT !.pc = "files_create",
                                        !.assistantId = assistantId,
                                        !.vectorStoreId = vectorStoreId]]

\* onDrop down to the fetch, and POST down to the first vendor call
StartUpload(p, atOnce, most) ==
    /\ ~InFlight(p)
    /\ \A q \in Procs : q < p => InFlight(q)
    /\ Cardinality({q \in Procs : InFlight(q)}) < atOnce
    /\ uploads < most
    /\ uploads' = uploads + 1
    /\ IF getApiKey(ls) = "" THEN
            up' = [up EXCEPT ![p] = [IdleUpload EXCEPT !.result.error = <<"No API key">>]]
       ELSE IF getProvider(ls) = "openai" THEN
            up' = [q \in Procs |->
                     IF q = p
                     THEN [IdleUpload EXCEPT
                             !.pc = IF ls.assistantId # NoHandle THEN "retrieve" ELSE "create_vs",
                             !.assistantIdParam = ls.assistantId,
                             !.vectorStoreIdParam = ls.vectorStoreId,
                             !.overlapped = \E r \in Procs \ {p} : InFlight(r)]
                     ELSE IF InFlight(q) THEN [up[q] EXCEPT !.overlapped = TRUE]
                     ELSE up[q]]
       ELSE
            up' = [up EXCEPT ![p] = [IdleUpload EXCEPT !.pc = "gemini_upload"]]
    /\ UNCHANGED <<assistants, nAssistants, nVectorStores, vsFile, ls, otherVars>>

\* handleGeminiUpload
GeminiUpload(p) ==
    /\ up[p].pc = "gemini_upload"
    /\ \/ up' = [up EXCEPT ![p].pc = "responded", ![p].result.status = 200]
       \/ \E f \in VendorFaults : Fail(p, f)
    /\ UNCHANGED <<assistants, nAssistants, nVectorStores, vsFile, uploads, ls, otherVars>>

\* openai.beta.assistants.retrieve(assistantId) of getOrCreateAssistant
Retrieve(p) ==
    /\ up[p].pc = "retrieve"
    /\ LET a == up[p].assistantIdParam
           Throws(e, how) ==
               IF CatchesRetrievalError(e)
               THEN up' = [up EXCEPT ![p].pc = "create_vs", ![p].retrieved = how]
               ELSE up' = [up EXCEPT ![p].pc = "responded", ![p].retrieved = how,
                                     ![p].result = UploadError(e)]
       IN \/ /\ a \in DOMAIN assistants
             /\ IF up[p].vectorStoreIdParam # NoHandle
                THEN Return(p, a, up[p].vectorStoreIdParam, [up[p] EXCEPT !.retrieved = "found"])
                ELSE up' = [up EXCEPT ![p].pc = "ensure_retrieve", ![p].retrieved = "found"]
          \/ /\ a \notin DOMAIN assistants
             /\ Throws(NotFoundError, "notfound")
          \/ \E f \in VendorFaults : Throws(f, "error")
    /\ UNCHANGED <<assistants, nAssistants, nVectorStores, vsFile, uploads, ls, otherVars>>

\* ensureVectorStore: retrieve the assistant and look at its stores
EnsureRetrieve(p) ==
    /\ up[p].pc = "ensure_retrieve"
    /\ LET a == up[p].assistantIdParam
       IN \/ /\ a \in DOMAIN assistants
             /\ IF assistants[a] # <<>>
                THEN Return(p, a, assistants[a][1], up[p])
                ELSE up' = [up EXCEPT ![p].pc = "ensure_create"]
          \/ /\ a \notin DOMAIN assistants
             /\ up' = [up EXCEPT ![p].pc = "create_vs"]
          \/ up' = [up EXCEPT ![p].pc = "create_vs"]
    /\ UNCHANGED <<assistants, nAssistants, nVectorStores, vsFile, uploads, ls, otherVars>>

\* ensureVectorStore: vectorStores.create
EnsureCreate(p) ==
    /\ up[p].pc = "ensure_create"
    /\ \/ /\ nVectorStores' = nVectorStores + 1
          /\ up' = [up EXCEPT ![p].pc = "ensure_update",
                              ![p].vectorStore = nVectorStores + 1,
                              ![p].madeV = @ \cup {nVectorStores + 1}]
       \/ /\ up' = [up EXCEPT ![p].pc = "create_vs"]
          /\ UNCHANGED nVectorStores
    /\ UNCHANGED <<assistants, nAssistants, vsFile, uploads, ls, otherVars>>

EnsureUpdateAdding(p) ==
    /\ up[p].pc = "ensure_update"
    /\ LET a == up[p].assistantIdParam
       IN \/ /\ a \in DOMAIN assistants
             /\ assistants' = [assistants EXCEPT ![a] = Append(@, up[p].vectorStore)]
             /\ Return(p, a, up[p].vectorStore, up[p])
          \/ /\ up' = [up EXCEPT ![p].pc = "create_vs"]
             /\ UNCHANGED assistants
    /\ UNCHANGED <<nAssistants, nVectorStores, vsFile, uploads, ls, otherVars>>

\* ensureVectorStore: assistants.update, then return to getOrCreateAssistant
EnsureUpdate(p) ==
    /\ up[p].pc = "ensure_update"
    /\ LET a == up[p].assistantIdParam
       IN \/ /\ a \in DOMAIN assistants
             /\ assistants' = [assistants EXCEPT ![a] = <<up[p].vectorStore>>]
             /\ Return(p, a, up[p].vectorStore, up[p])
          \/ /\ up' = [up EXCEPT ![p].pc = "create_vs"]
             /\ UNCHANGED assistants
    /\ UNCHANGED <<nAssistants, nVectorStores, vsFile, uploads, ls, otherVars>>

\* getOrCreateAssistant: vectorStores.create
CreateVectorStore(p) ==
    /\ up[p].pc = "create_vs"
    /\ \/ /\ nVectorStores' = nVectorStores + 1
          /\ up' = [up EXCEPT ![p].pc = "create_assistant",
                              ![p].vectorStore = nVectorStores + 1,
                              ![p].madeV = @ \cup {nVectorStores + 1}]
       \/ /\ \E f \in VendorFaults : Fail(p, f)
          /\ UNCHANGED nVectorStores
    /\ UNCHANGED <<assistants, nAssistants, vsFile, uploads, ls, otherVars>>

\* getOrCreateAssistant: assistants.create, then return
CreateAssistant(p) ==
    /\ up[p].pc = "create_assistant"
    /\ \/ /\ nAssistants' = nAssistants + 1
          /\ assistants' = [a \in DOMAIN assistants \cup {nAssistants + 1} |->
                              IF a = nAssistants + 1
                              THEN NewToolResources(up[p].vectorStore)
                              ELSE assistants[a]]
          /\ Return(p, nAssistants + 1, up[p].vectorStore,
                    [up[p] EXCEPT !.madeA = @ \cup {nAssistants + 1}])
       \/ /\ \E f \in VendorFaults : Fail(p, f)
          /\ UNCHANGED <<assistants, nAssistants>>
    /\ UNCHANGED <<nVectorStores, vsFile, uploads, ls, otherVars>>

\* uploadFileToVectorStore: files.create
FilesCreate(p) ==
    /\ up[p].pc = "files_create"
    /\ \/ up' = [up EXCEPT ![p].pc = "vs_files_create"]
       \/ \E f \in VendorFaults : Fail(p, f)
    /\ UNCHANGED <<assistants, nAssistants, nVectorStores, vsFile, uploads, ls, otherVars>>

\* uploadFileToVectorStore: vectorStores.files.create; status = vectorStoreFile.status
VsFilesCreate(p) ==
    /\ up[p].pc = "vs_files_create"
    /\ \/ \E s \in FileStatuses :
            /\ vsFile' = [vsFile EXCEPT ![p] = s]
            /\ up' = [up EXCEPT ![p].pc = "poll", ![p].status = s]
       \/ /\ \E f \in VendorFaults : Fail(p, f)
          /\ UNCHANGED vsFile
    /\ UNCHANGED <<assistants, nAssistants, nVectorStores, uploads, ls, otherVars>>

\* the vendor finishes processing the file the request is waiting for
VendorProcess(p) ==
    /\ up[p].pc = "poll"
    /\ vsFile[p] = "in_progress"
    /\ \E s \in FileStatuses \ {"in_progress"} : vsFile' = [vsFile EXCEPT ![p] = s]
    /\ UNCHANGED <<up, assistants, nAssistants, nVectorStores, uploads, ls, otherVars>>

\* a loop that retrieves the status once more whatever the last status was
PollRegardless(p) ==
    /\ up[p].pc = "poll"
    /\ up[p].polls < MaxPolls + 1
    /\ up' = [up EXCEPT ![p].status = vsFile[p], ![p].polls = @ + 1]
    /\ UNCHANGED <<assistants, nAssistants, nVectorStores, vsFile, uploads, ls, otherVars>>

\* one turn of while (status === "in_progress"): wait, retrieve, status = updated.status
Poll(p) ==
    /\ up[p].pc = "poll"
    /\ up[p].status = "in_progress"
    /\ up[p].polls < MaxPolls \/ vsFile[p] # "in_progress"
    /\ \/ up' = [up EXCEPT ![p].status = vsFile[p], ![p].polls = @ + 1]
       \/ \E f \in VendorFaults : Fail(p, f)
    /\ UNCHANGED <<assistants, nAssistants, nVectorStores, vsFile, uploads, ls, otherVars>>

\* after the loop: throw unless completed; on completion the route answers
IngestEnd(p) ==
    /\ up[p].pc = "poll"
    /\ up[p].status # "in_progress"
    /\ IF IngestSucceeded(up[p].status)
       THEN up' = [up EXCEPT ![p].pc = "responded",
                             ![p].result = [NoResult EXCEPT
                                              !.status = 200,
                                              !.assistantId = up[p].assistantId,
                                              !.vectorStoreId = up[p].vectorStoreId]]
       ELSE Fail(p, IngestionFailed(up[p].status))
    /\ UNCHANGED <<assistants, nAssistants, nVectorStores, vsFile, uploads, ls, otherVars>>

\* onDrop after the fetch: a good response stores the handles it carries
UploadDone(p) ==
    /\ up[p].pc = "responded"
    /\ LET data == up[p].result
       IN IF data.status = 200
          THEN ls' = [ls EXCEPT
                        !.assistantId = IF data.assistantId # NoHandle
                                        THEN data.assistantId ELSE @,
                        !.vectorStoreId = IF data.vectorStoreId # NoHandle
                                          THEN data.vectorStoreId ELSE @]
          ELSE UNCHANGED ls
    /\ up' = [up EXCEPT ![p] = IdleUpload]
    /\ vsFile' = [vsFile EXCEPT ![p] = "none"]
    /\ UNCHANGED <<assistants, nAssistants, nVectorStores, uploads, otherVars>>

\* the vendor deletes or expires an assistant
VendorDeleteAssistant ==
    /\ \E a \in DOMAIN assistants :
         assistants' = [b \in DOMAIN assistants \ {a} |-> assistants[b]]
    /\ UNCHANGED <<up, nAssistants, nVectorStores, vsFile, uploads, ls, otherVars>>

----------------------------------------------------------------------------
(* SpecCodec: a Gemini stream is encoded, cut by the transport and decoded. *)

MaxFrags == 2

CodecFragments == { <<"a">>, <<QUOTE, BSLASH, "n">>, <<NL, EACUTE>>, <<>> }

SpecExample == << <<"T", "h", "e">>, <<" ">>, <<"a", "n", "s", "w", "e", "r">>,
                  <<" ", "i", "s">>, <<" ", "4", "2", ".">> >>

CodecFragmentSeqs ==
    UNION { [1..k -> CodecFragments] : k \in 0..MaxFrags } \cup {SpecExample}

CodecUsages == { [promptTokenCount |-> 10, candidatesTokenCount |-> 5],
                 [promptTokenCount |-> 7, candidatesTokenCount |-> Undef] }

\* the text chunks, then the chunk that carries the usage metadata
CodecScript(fs, u) ==
    [i \in 1..(Len(fs) + 1) |->
        IF i <= Len(fs) THEN [kind |-> "chunk", text |-> fs[i], usage |-> NoUsage]
        ELSE [kind |-> "chunk", text |-> <<>>, usage |-> u]]

CodecInit ==
    /\ req = [EmptyRequest EXCEPT !.messages = <<[role |-> "user", content |-> <<"q">>]>>,
                                  !.apiKey = "k", !.provider = "gemini", !.model = <<"m">>]
    /\ srvPc = "gemini_stream" /\ invoked = <<"gemini">> /\ resp = StreamResp
    /\ wire = <<>> /\ streamState = "readable" /\ totalIn = 0 /\ totalOut = 0
    /\ currentThreadId = NoThread
    /\ \E fs \in CodecFragmentSeqs, u \in CodecUsages : vendorStream = CodecScript(fs, u)
    /\ upstream = <<>> /\ threads = NoThreads
    /\ session = [docs |-> <<"none">>, history |-> GroundingTurns(<<>>), message |-> <<"q">>]
    /\ vendorCalls = <<"files.list", "sendMessageStream">>
    /\ LinkIdle
    /\ cliPc = "reading" /\ assistantContent = <<>> /\ utf8Pending = <<>>
    /\ tracked = <<>> /\ devLog = <<>>
    /\ chatMessages = <<[id |-> <<"user", 1>>, role |-> "user", content |-> <<"q">>],
                        [id |-> <<"assistant", 1>>, role |-> "assistant", content |-> <<>>]>>
    /\ isLoading = TRUE /\ turns = 1 /\ assistantMsgId = <<"assistant", 1>>
    /\ currentMessages = <<[id |-> <<"user", 1>>, role |-> "user", content |-> <<"q">>]>>
    /\ ls = [EmptyStorage EXCEPT !.geminiKey = "k"]
    /\ UploadIdle

CodecNext ==
    \/ GeminiChunk
    \/ GeminiFinish
    \/ DeliverFrames
    \/ DeliverWhole
    \/ DeliverSplit
    \/ ClientRead
    \/ ClientReadDone

SpecCodec == CodecInit /\ [][CodecNext]_vars

RECURSIVE ChunkTexts(_)
ChunkTexts(events) ==
    IF events = <<>> THEN <<>> ELSE <<Head(events).text>> \o ChunkTexts(Tail(events))

EncodedUsage ==
    [inputTokens |-> totalIn, outputTokens |-> totalOut, model |-> EffectiveModel(req)]

RECURSIVE FrameEnds(_)
FrameEnds(chunks) ==
    IF chunks = <<>> THEN {}
    ELSE {Len(Concat(chunks))} \cup FrameEnds(SubSeq(chunks, 1, Len(chunks) - 1))

\* every read returned whole frames
OnFrameBoundaries ==
    \/ plan.kind \in {"frames", "whole"}
    \/ plan.kind = "split" /\ plan.at \in FrameEnds(wire)

\* C3: fragments and a usage record, encoded by the route and decoded by the
\* client from reads that end on frame boundaries, give back the concatenation
\* of the fragments and the usage record that was encoded.
FrameRoundTrip ==
    (cliPc = "done" /\ OnFrameBoundaries) =>
        /\ assistantContent = Concat(ChunkTexts(upstream))
        /\ tracked = <<EncodedUsage>>

TheAnswer == <<"T", "h", "e", " ", "a", "n", "s", "w", "e", "r", " ", "i", "s", " ", "4", "2", ".">>

FrameRoundTripWitness ==
    /\ cliPc = "done" /\ plan.kind = "frames"
    /\ ChunkTexts(upstream) = Append(SpecExample, <<>>)
    /\ assistantContent = TheAnswer
    /\ tracked = <<[inputTokens |-> 10, outputTokens |-> 5, model |-> <<"m">>]>>

Unbroken ==
    DecodeChunk([content |-> <<>>, tracked |-> <<>>, log |-> <<>>, pending |-> <<>>], WireBytes)

\* C2: the stream cut in two at any byte offset decodes to the content and the
\* usage that the unbroken stream decodes to.
SplitFrameRobust ==
    (cliPc = "done" /\ plan.kind = "split") =>
        /\ assistantContent = Unbroken.content
        /\ tracked = Unbroken.tracked

\* C20: in one turn trackUsage is called at most once, and when the stream has
\* ended with a UsageSummary frame it has been called exactly once, with the
\* inputTokens, outputTokens and model of that frame.
UsageTrackedOnce ==
    /\ Len(tracked) <= 1
    /\ (cliPc = "done" /\ wire # <<>> /\ IsUsageSummary(wire[Len(wire)])) =>
           tracked = <<EncodedUsage>>

----------------------------------------------------------------------------
(* SpecChat: one request to POST /api/chat, any body, up to the end of its  *)
(* stream.                                                                  *)

ChatMessageSet == { [role |-> "user", content |-> <<"x">>],
                    [role |-> "assistant", content |-> <<"y">>] }

Histories == UNION { [1..k -> ChatMessageSet] : k \in 0..MaxHist }

ChatRequests ==
    [json : {"ok"}, messages : Histories, apiKey : {"", "absent", "k"}, model : {<<>>, <<"m">>},
     provider : {"openai", "gemini", "cohere", "absent"},
     assistantId : {NoHandle, 1}, threadId : {NoThread, T0, StaleThread}]
    \cup {[EmptyRequest EXCEPT !.json = "bad"]}

\* the vendor holds one thread with one earlier message
InitThreads == [t \in {T0} |-> << <<"p">> >>]

ChatInit ==
    /\ req \in ChatRequests
    /\ srvPc = "POST" /\ invoked = <<>> /\ resp = NoResp
    /\ wire = <<>> /\ streamState = "none" /\ totalIn = 0 /\ totalOut = 0
    /\ currentThreadId = NoThread /\ vendorStream = <<>> /\ upstream = <<>>
    /\ session = NoSession /\ threads = InitThreads /\ vendorCalls = <<>>
    /\ LinkIdle /\ ReaderIdle /\ ConvIdle /\ ls = EmptyStorage
    /\ FileHelpersIdle /\ UploadRouteIdle
    /\ IF req.json = "ok" /\ EffectiveApiKey(req) # "" /\ ~IsOpenAI(req)
       THEN geminiFiles \in GeminiFileLists ELSE geminiFiles = <<>>

ChatNext ==
    \/ Post
    \/ GeminiList
    \/ GeminiSend(Scripts(GeminiEvents))
    \/ RunCreateThread
    \/ RunAppend(Scripts(RunEvents))
    \/ SimpleCreate(Scripts(SimpleEvents))
    \/ GeminiChunk
    \/ GeminiFinish
    \/ GeminiCatch
    \/ RunEvent
    \/ RunFinish
    \/ RunCatch
    \/ SimpleChunk
    \/ SimpleFinish
    \/ SimpleCatch

SpecChat == ChatInit /\ [][ChatNext]_vars

\* the frames before the last are TextDelta frames; a UsageSummary is on the
\* wire exactly when the stream was closed, and then it is the last frame
WireShape ==
    /\ \A i \in 1..(Len(wire) - 1) : IsTextDelta(wire[i])
    /\ wire # <<>> => IsTextDelta(wire[Len(wire)]) \/ IsUsageSummary(wire[Len(wire)])
    /\ streamState = "closed" <=> (wire # <<>> /\ IsUsageSummary(wire[Len(wire)]))

\* once the stream is closed or errored nothing is enqueued any more
WireEnded ==
    streamState \in {"closed", "errored"} => (wire' = wire /\ streamState' = streamState)

\* C1: on the stream of every adapter the frames are TextDelta frames, then one
\* terminal event (a UsageSummary with a clean close, or an error), then
\* nothing: no frame follows the terminal event and no stream has two
\* UsageSummary frames.
FrameOrder == [](WireShape) /\ [][WireEnded]_vars

FrameOrderWitness ==
    /\ invoked = <<"openai-run">>
    /\ streamState = "closed"
    /\ Len(wire) = 3
    /\ IsTextDelta(wire[1]) /\ IsTextDelta(wire[2]) /\ IsUsageSummary(wire[3])

\* C4: a call of the Run adapter that was given a thread handle creates no
\* thread and adds nothing to a thread but the last message of the history,
\* once; when its stream is open that message has been added.
ThreadReuse ==
    (invoked = <<"openai-run">> /\ req.threadId # NoThread) =>
        /\ DOMAIN threads = DOMAIN InitThreads
        /\ \A c \in 1..Len(vendorCalls) : vendorCalls[c] # "threads.create"
        /\ \A t \in DOMAIN threads :
            \/ threads[t] = InitThreads[t]
            \/ /\ t = req.threadId /\ req.messages # <<>>
               /\ threads[t] = Append(InitThreads[t], LastMessage(req).content)
        /\ resp = StreamResp =>
            /\ req.threadId \in DOMAIN threads
            /\ threads[req.threadId] = Append(InitThreads[req.threadId], LastMessage(req).content)

ThreadReuseWitness ==
    /\ invoked = <<"openai-run">> /\ req.threadId = T0 /\ resp = StreamResp
    /\ Len(req.messages) = 2
    /\ threads[T0] = << <<"p">>, <<"y">> >>

\* the adapter the dispatcher is to select for a request body
ExpectedAdapter(r) ==
    IF r.json = "bad" \/ r.apiKey \in {"", "absent"} THEN <<>>
    ELSE IF r.provider = "openai"
         THEN (IF r.assistantId # NoHandle THEN <<"openai-run">> ELSE <<"openai-simple">>)
         ELSE <<"gemini">>

\* C10: a request invokes one adapter, chosen by the provider tag: the OpenAI
\* path for "openai" (Run with an assistant handle, Simple without), Gemini
\* for "gemini", a missing tag or any other tag; never two.
DispatchOne ==
    /\ Len(invoked) <= 1
    /\ srvPc # "POST" => invoked = ExpectedAdapter(req)

DispatchOneWitness ==
    /\ req.provider = "cohere" /\ req.assistantId # NoHandle
    /\ invoked = <<"gemini">> /\ streamState = "closed"

\* C11: a request whose key is empty or missing is answered with the
\* structured 400 error of the missing key, no adapter is invoked and no
\* vendor call is made for it.
MissingCredential ==
    (req.json = "ok" /\ req.apiKey \in {"", "absent"}) =>
        /\ invoked = <<>>
        /\ vendorCalls = <<>>
        /\ streamState = "none" /\ wire = <<>>
        /\ threads = InitThreads
        /\ srvPc \in {"POST", "done"}
        /\ srvPc = "done" => resp = JsonError(400, KeyMissing(req))

MissingCredentialWitness ==
    /\ req.apiKey = "absent" /\ req.provider = "openai" /\ req.assistantId # NoHandle
    /\ srvPc = "done"
    /\ resp.status = 400

\* the request went to the Run adapter with a thread handle the vendor does
\* not know, and the adapter is through with it
StaleThreadTurnOver ==
    /\ invoked = <<"openai-run">>
    /\ req.threadId # NoThread /\ req.threadId \notin DOMAIN InitThreads
    /\ req.messages # <<>>
    /\ srvPc \in {"done", "failed"}

\* C12: a thread handle the vendor rejects is replaced silently: a thread is
\* created in its place, the turn runs against a thread the vendor holds, and
\* the caller gets a stream, not an error response.
StaleHandleRecovered ==
    StaleThreadTurnOver =>
        /\ \E c \in 1..Len(vendorCalls) : vendorCalls[c] = "threads.create"
        /\ currentThreadId \in DOMAIN threads
        /\ resp # Unhandled

\* C13: whatever the listing of the documents answers, the Gemini adapter
\* goes on to open the session for the newest message; a failed listing
\* gives the grounding "none" with no document in the first turn.
GroundingBestEffort ==
    (invoked = <<"gemini">> /\ req.messages # <<>> /\ vendorCalls = <<"files.list">>) =>
        /\ srvPc = "gemini_send"
        /\ session.message = LastMessage(req).content
        /\ session.docs = <<"none">> => session.history[1].files = <<>>

\* an errored stream holds TextDelta frames only, and the error was the last
\* thing the vendor stream yielded
ErroredWire ==
    streamState = "errored" =>
        /\ \A i \in 1..Len(wire) : IsTextDelta(wire[i])
        /\ upstream # <<>> /\ upstream[Len(upstream)] = Throw

\* the step on which the vendor stream throws, and every step after it,
\* leaves the frames on the wire as they are
ErrorStep ==
    /\ (streamState = "readable" /\ vendorStream # <<>> /\ Head(vendorStream) = Throw) =>
            (wire' = wire /\ streamState' = "errored")
    /\ streamState = "errored" => (wire' = wire /\ streamState' = "errored")

PreStreamStructured ==
    (srvPc \in {"done", "failed"} /\ streamState = "none") =>
        /\ resp.kind = "json"
        /\ resp.status \in {400, 401, 500}
        /\ resp.error # ""

\* the text fragments one event of a vendor stream holds, in order
EventFragments(e) ==
    IF e = Throw THEN <<>>
    ELSE IF e.kind = "event" THEN
        IF e.event = "thread.message.delta"
        THEN [i \in 1..Len(e.content) |->
                 IF e.content[i].type = "text" THEN e.content[i].value ELSE <<>>]
        ELSE <<>>
    ELSE IF "text" \in DOMAIN e THEN <<e.text>>
    ELSE <<e.content>>

RECURSIVE StreamFragments(_)
StreamFragments(events) ==
    IF events = <<>> THEN <<>>
    ELSE EventFragments(Head(events)) \o StreamFragments(Tail(events))

NonEmpty(fragments) == SelectSeq(fragments, LAMBDA f : f # <<>>)

\* the payload a client reads from a TextDelta frame
TextPayload(frame) ==
    LET text == Utf8DecodeStream(<<>>, frame).text
    IN  JsonParse(SubSeq(text, 3, Len(text) - 1)).val

TextPayloads ==
    LET deltas == SelectSeq(wire, IsTextDelta)
    IN  [i \in 1..Len(deltas) |-> TextPayload(deltas[i])]

\* C24: the TextDelta payloads on the wire are the non-empty text fragments
\* the vendor stream has yielded, one frame per fragment and in the same
\* order: nothing is reordered, merged, repeated or lost.
FramesFollowFragments ==
    streamState # "none" => TextPayloads = NonEmpty(StreamFragments(upstream))

FramesFollowFragmentsWitness ==
    /\ invoked = <<"openai-run">> /\ streamState = "closed"
    /\ Len(upstream) = 2 /\ upstream[1].event = "thread.message.delta"
    /\ upstream[2].event = "thread.message.delta"
    /\ TextPayloads = << <<"a">>, <<"b">> >>

\* the usage-bearing events of a stream, in order
UsageBearing(events) == SelectSeq(events, LAMBDA e : e # Throw /\ e.usage # NoUsage)

\* the usage record a client reads from the last frame of the wire
TerminalUsage ==
    LET text == Utf8DecodeStream(<<>>, wire[Len(wire)]).text
    IN  JsonParse(SubSeq(text, 3, Len(text) - 1)).usage

\* C25: the UsageSummary of the Gemini adapter carries the counts of the last
\* chunk that reported usage (a count the chunk leaves out reads as 0), not
\* a sum over the chunks, and 0 and 0 when no chunk reported usage.
GeminiLatestUsage ==
    (invoked = <<"gemini">> /\ streamState = "closed") =>
        LET reports == UsageBearing(upstream) IN
        IF reports = <<>>
        THEN TerminalUsage.inputTokens = 0 /\ TerminalUsage.outputTokens = 0
        ELSE /\ TerminalUsage.inputTokens =
                    OrZero(reports[Len(reports)].usage.promptTokenCount)
             /\ TerminalUsage.outputTokens =
                    OrZero(reports[Len(reports)].usage.candidatesTokenCount)

GeminiLatestUsageWitness ==
    /\ invoked = <<"gemini">> /\ streamState = "closed"
    /\ Len(UsageBearing(upstream)) = 2
    /\ upstream[1].usage.promptTokenCount = 5 /\ upstream[2].usage.promptTokenCount = 3
    /\ TerminalUsage.inputTokens = 3 /\ TerminalUsage.outputTokens = 4

IsPrefix(s, t) == Len(s) <= Len(t) /\ SubSeq(t, 1, Len(s)) = s

Called(call) == \E c \in 1..Len(vendorCalls) : vendorCalls[c] = call

\* C26: the Run adapter makes its vendor calls in the order thread creation,
\* message append, run: a thread is created only when no handle came with the
\* request, the message is appended only to a handle the adapter holds, the
\* run starts only after the append succeeded, and no frame is enqueued
\* before the run was started.
RunCallOrder ==
    invoked = <<"openai-run">> =>
        /\ IsPrefix(vendorCalls,
                    IF req.threadId = NoThread
                    THEN <<"threads.create", "messages.create", "runs.stream">>
                    ELSE <<"messages.create", "runs.stream">>)
        /\ Called("messages.create") => currentThreadId # NoThread
        /\ Called("runs.stream") =>
               /\ currentThreadId \in DOMAIN threads
               /\ threads[currentThreadId] # <<>>
               /\ threads[currentThreadId][Len(threads[currentThreadId])]
                      = LastMessage(req).content
        /\ (wire # <<>> \/ streamState # "none" \/ upstream # <<>>) => Called("runs.stream")

RunCallOrderWitness ==
    /\ invoked = <<"openai-run">> /\ req.threadId = NoThread
    /\ vendorCalls = <<"threads.create", "messages.create", "runs.stream">>
    /\ streamState = "closed" /\ Len(wire) = 3

\* the thread handle a client reads from the last frame of the wire
TerminalThreadId ==
    LET text == Utf8DecodeStream(<<>>, wire[Len(wire)]).text
    IN  JsonParse(SubSeq(text, 3, Len(text) - 1)).threadId

\* C27: the UsageSummary of the Run adapter carries the thread the run was
\* made on, the handle of the request when it had one and the handle of the
\* thread just created otherwise; the UsageSummary of the Gemini and of the
\* Simple adapter carries no thread handle.
UsageCarriesThread ==
    streamState = "closed" =>
        IF invoked = <<"openai-run">> THEN
            /\ TerminalThreadId # NoThread
            /\ TerminalThreadId \in DOMAIN threads
            /\ threads[TerminalThreadId][Len(threads[TerminalThreadId])]
                   = LastMessage(req).content
            /\ IF req.threadId # NoThread
               THEN TerminalThreadId = req.threadId
               ELSE /\ TerminalThreadId \notin DOMAIN InitThreads
                    /\ DOMAIN threads = DOMAIN InitThreads \cup {TerminalThreadId}
        ELSE TerminalThreadId = NoThread

UsageCarriesThreadWitness ==
    /\ streamState = "closed" /\ invoked = <<"openai-run">>
    /\ req.threadId = NoThread
    /\ TerminalThreadId = currentThreadId
    /\ TerminalThreadId \notin DOMAIN InitThreads
    /\ upstream # <<>>

\* the Run adapter takes an event off the vendor stream
RunTakesEvent ==
    /\ srvPc = "run_stream" /\ vendorStream # <<>> /\ Head(vendorStream) # Throw
    /\ upstream' = Append(upstream, Head(vendorStream))

TextBlocks(content) ==
    SelectSeq(content, LAMBDA block : block.type = "text" /\ block.value # <<>>)

\* C28: an event of the run that is neither a message delta nor the
\* completion of the run is ignored: no frame, no change of the usage counts,
\* and the stream stays open; a message delta enqueues a frame for each of
\* its text blocks that has text and for no other block.
OtherEventsIgnored ==
    [][RunTakesEvent =>
          LET event == Head(vendorStream) IN
          /\ streamState' = "readable" /\ srvPc' = "run_stream"
          /\ event.event \notin {"thread.message.delta", "thread.run.completed"} =>
                 wire' = wire /\ totalIn' = totalIn /\ totalOut' = totalOut
          /\ event.event = "thread.message.delta" =>
                 /\ Len(wire') = Len(wire) + Len(TextBlocks(event.content))
                 /\ totalIn' = totalIn /\ totalOut' = totalOut
          /\ event.event = "thread.run.completed" => wire' = wire]_vars

OtherEventsIgnoredWitness ==
    /\ invoked = <<"openai-run">> /\ streamState = "closed"
    /\ Len(upstream) = 2
    /\ upstream[1].event = "thread.run.failed"
    /\ upstream[2].event = "thread.message.delta" /\ Len(upstream[2].content) = 3
    /\ Len(wire) = 3

\* C31: once the Gemini adapter has listed the documents, the session it
\* opens is grounded on every document the vendor holds in state ACTIVE: the
\* first turn of the history is the user turn that references them all, the
\* second the model's acknowledgment, the rest the messages of the request
\* but the last, in order, with the roles user and model; the newest message
\* alone is the one sent.
GroundedOnActive ==
    (invoked = <<"gemini">> /\ srvPc \in {"gemini_send", "gemini_stream"}) =>
        /\ session.history =
               GroundingTurns(DisplayNames(SelectSeq(geminiFiles, IsActive)))
                   \o FormattedHistory(req.messages)
        /\ session.message = LastMessage(req).content

\* a line of a chunk that the read loop takes as a TextDelta
IsDecodedDelta(line) == StartsWith(line, <<"0", ":">>) /\ JsonParse(Slice(line, 2)).ok

\* the text fragments one pass of the read loop decodes from a chunk, in order
DecodedTexts(pending, value) ==
    LET deltas == SelectSeq(SplitLines(Utf8DecodeStream(pending, value).text), IsDecodedDelta)
    IN  [i \in 1..Len(deltas) |-> JsToString(JsonParse(Slice(deltas[i], 2)))]

\* the places of the in-flight assistant message in the list
InFlightAt == { i \in 1..Len(chatMessages) : chatMessages[i].id = assistantMsgId }

\* while the read loop runs, one message carries the id of the turn, it is
\* the last of the list, and its content is what the loop has decoded
OneInFlightMessage ==
    cliPc = "reading" =>
        /\ InFlightAt = {Len(chatMessages)}
        /\ chatMessages[Len(chatMessages)].content = assistantContent

\* a pass of the read loop appends the fragments it decoded, in order, to the
\* content of the in-flight message and leaves every other message as it was
DeliveryAppends ==
    [][(cliPc = "reading" /\ deliveries # <<>> /\ deliveries' = Tail(deliveries)) =>
         LET n   == Len(chatMessages)
             new == Concat(DecodedTexts(utf8Pending, Head(deliveries)))
         IN /\ Len(chatMessages') = n
            /\ chatMessages'[n] = [chatMessages[n] EXCEPT !.content = @ \o new]
            /\ IsPrefix(chatMessages[n].content, chatMessages'[n].content)
            /\ \A i \in 1..(n - 1) : chatMessages'[i] = chatMessages[i]]_vars

RunEventSeen(name) ==
    \E i \in 1..Len(upstream) :
        upstream[i].kind = "event" /\ upstream[i].event = name

\* C34: on the Run path the wire ends with a UsageSummary and a clean close
\* only when the vendor's event stream had the event thread.run.completed:
\* a stream that reported thread.run.failed and ended is not closed cleanly
\* unless the run was also reported completed.
CleanEndOnlyCompleted ==
    (invoked = <<"openai-run">> /\ streamState = "closed"
        /\ RunEventSeen("thread.run.failed")) => RunEventSeen("thread.run.completed")

----------------------------------------------------------------------------
(* SpecConversation: a browser session submits turns one after another;     *)
(* each goes through the route and comes back through the read loop.        *)

\* per turn the vendor stream yields one event, then ends or fails
TurnScripts(events) ==
    { <<e>> : e \in events } \cup { <<e, Throw>> : e \in events }

ConvStorages ==
    { [EmptyStorage EXCEPT !.provider = "openai", !.openaiKey = "k", !.assistantId = 1],
      [EmptyStorage EXCEPT !.provider = "openai", !.openaiKey = "k", !.model = Gpt4o],
      [EmptyStorage EXCEPT !.provider = "openai", !.model = GeminiFlash],
      [EmptyStorage EXCEPT !.geminiKey = "k", !.model = Gpt4o, !.assistantId = 1] }

ConvInit ==
    /\ ChatIdle /\ LinkIdle /\ ReaderIdle /\ ConvIdle
    /\ FileHelpersIdle /\ UploadRouteIdle
    /\ ls \in ConvStorages
    /\ IF getProvider(ls) = "gemini" /\ getApiKey(ls) # ""
       THEN geminiFiles \in GeminiFileLists ELSE geminiFiles = <<>>

ConvNext ==
    \/ Submit
    \/ FetchFails
    \/ Post
    \/ GeminiList
    \/ GeminiSend(TurnScripts(GeminiEvents))
    \/ GeminiChunk
    \/ GeminiFinish
    \/ GeminiCatch
    \/ RunCreateThread
    \/ RunAppend(TurnScripts(RunEvents))
    \/ RunEvent
    \/ RunFinish
    \/ RunCatch
    \/ SimpleCreate(TurnScripts(SimpleEvents))
    \/ SimpleChunk
    \/ SimpleFinish
    \/ SimpleCatch
    \/ ClientResponse
    \/ DeliverFrames
    \/ DeliverAborted
    \/ ClientRead
    \/ ClientReadDone
    \/ ClientReadError
    \/ clearChat

SpecConversation == ConvInit /\ [][ConvNext]_vars

\* the turn ran on the run path and its stream was read to the end
RunTurnRead ==
    /\ cliPc = "done"
    /\ invoked = <<"openai-run">>
    /\ streamState = "closed"
    /\ plan.kind = "frames"

\* no turn so far ended in the catch block
NoErrorMessages == \A i \in 1..Len(chatMessages) : chatMessages[i].id[1] # "error"

\* C5: on the run path, when every turn of the conversation so far succeeded,
\* the caller holds the thread identifier the route reported, and the
\* conversation of n turns lives in one vendor thread with n user messages.
ThreadContinuity ==
    (RunTurnRead /\ NoErrorMessages) =>
        /\ ls.threadId = currentThreadId
        /\ Cardinality(DOMAIN threads) = 1
        /\ Len(threads[currentThreadId]) = turns

\* the turn just made ended in the catch block, and the chat was not left
\* cleared during it: the user's message of the turn is in the list
TurnFailed ==
    /\ cliPc = "done" /\ turns >= 1
    /\ chatMessages # <<>>
    /\ chatMessages[Len(chatMessages)].id = <<"error", turns>>
    /\ \E i \in 1..Len(chatMessages) : chatMessages[i].id = <<"user", turns>>

\* C15: a failed turn shows as one assistant message holding the error text,
\* after the messages the conversation had before the turn and the user
\* message of the turn, all of them unchanged.
FailedTurnOneMessage ==
    TurnFailed =>
        /\ Len(chatMessages) = Len(currentMessages) + 1
        /\ SubSeq(chatMessages, 1, Len(currentMessages)) = currentMessages
        /\ chatMessages[Len(chatMessages)].role = "assistant"
        /\ chatMessages[Len(chatMessages)].content[1] = "Error: "

\* the handles the browser holds went out with the request of the turn
RequestCarriesHandles ==
    (turns >= 1 /\ getProvider(ls) = "openai") =>
        req.assistantId = ls.assistantId /\ req.threadId = ls.threadId

\* C21: a turn that fails aborts only itself: no step of a turn changes the
\* handles the browser holds, the failed turn leaves the client ready for the
\* next submission, and the next turn goes out with the same handles.
FailedTurnIsolated ==
    /\ [](TurnFailed => (~isLoading /\ cliPc = "done"))
    /\ []RequestCarriesHandles
    /\ [][ls' = ls]_vars

\* a second turn was read to its end after the first one failed in transport
FailedTurnIsolatedWitness ==
    /\ turns = 2 /\ cliPc = "done" /\ streamState = "closed"
    /\ \E i \in 1..Len(chatMessages) :
          chatMessages[i] = ErrorMessage(1, "Failed to fetch")
    /\ chatMessages # <<>>
    /\ chatMessages[Len(chatMessages)].id = <<"assistant", 2>>
    /\ chatMessages[Len(chatMessages)].content # <<>>
    /\ ls.assistantId = 1 /\ req.assistantId = 1

InFlightTurn == cliPc \in {"fetching", "reading"}

ClearedInTurn == isLoading /\ chatMessages = <<>>

\* C37: once the chat was cleared while the response of a turn is in flight,
\* nothing that arrives for that turn brings a message back or changes one:
\* the only message the turn can still add is the error message of its catch
\* block.
ClearedStaysCleared ==
    [][(ClearedInTurn /\ resp = StreamResp) =>
          \A i \in 1..Len(chatMessages') : chatMessages'[i].id[1] = "error"]_vars

\* what runs without the user, but for the steps that write or read frames:
\* the route and its adapters up to the stream, the transport, and the
\* continuations of handleSubmit
TurnProgress ==
    \/ Post
    \/ GeminiList
    \/ GeminiSend(TurnScripts(GeminiEvents))
    \/ RunCreateThread
    \/ RunAppend(TurnScripts(RunEvents))
    \/ SimpleCreate(TurnScripts(SimpleEvents))
    \/ ClientResponse
    \/ DeliverFrames \/ DeliverAborted
    \/ ClientReadDone \/ ClientReadError

\* a step of an adapter's loop over the vendor's stream (GeminiChunk,
\* RunEvent, SimpleChunk, or the catch of the three), told by what it does to
\* vendorStream: the stream yields its next event or throws
YieldStep ==
    /\ \E pc \in {"gemini_stream", "run_stream", "simple_stream"} : StreamOpen(pc)
    /\ vendorStream # <<>>
    /\ vendorStream' = Tail(vendorStream)

\* the step GeminiFinish, RunFinish or SimpleFinish, told by what it does to
\* srvPc: the vendor's stream is exhausted and the adapter closes its own
FinishStep ==
    /\ \E pc \in {"gemini_stream", "run_stream", "simple_stream"} : StreamOpen(pc)
    /\ vendorStream = <<>>
    /\ srvPc' = "done"

\* the step ClientRead, told by what it does to the chunks in transit
ReadStep ==
    /\ cliPc = "reading" /\ deliveries # <<>>
    /\ deliveries' = Tail(deliveries)

\* the server, the network and the browser's event loop run what is ready to
\* run, and the vendor's stream ends or fails.  The fairness of the steps that
\* write or read frames is stated on vendorStream, srvPc and deliveries, which
\* leaves the frames out of the computation of what is enabled.
FairSpecConversation ==
    /\ SpecConversation
    /\ WF_vars(TurnProgress)
    /\ WF_vendorStream(YieldStep)
    /\ WF_srvPc(FinishStep)
    /\ WF_deliveries(ReadStep)

\* C38: every submission leaves the loading state: whether the request fails
\* before the stream, the stream ends cleanly, or it errors mid-transfer,
\* isLoading is cleared afterwards and the client can submit again.
LoadingEnds == isLoading ~> ~isLoading

\* a turn whose stream errored mid-transfer has ended with the flag cleared
LoadingEndsWitness ==
    /\ turns >= 1 /\ cliPc = "done" /\ ~isLoading
    /\ plan.kind = "aborted" /\ streamState = "errored"

----------------------------------------------------------------------------
(* SpecUpload: one browser uploads files, possibly two at a time; the       *)
(* vendor may fail any call and may delete assistants.                      *)

UploadStorages ==
    { [EmptyStorage EXCEPT !.provider = "openai", !.openaiKey = "k"],
      [EmptyStorage EXCEPT !.provider = "openai"],
      [EmptyStorage EXCEPT !.geminiKey = "k"] }

\* a browser that holds the handle of an assistant but not of its store, the
\* assistant having a store attached or none
KnownAssistant == [EmptyStorage EXCEPT !.provider = "openai", !.openaiKey = "k",
                                       !.assistantId = 1]

UploadInit ==
    /\ ChatIdle /\ LinkIdle /\ ReaderIdle /\ ConvIdle /\ FilesIdle
    /\ up = [p \in Procs |-> IdleUpload]
    /\ vsFile = [p \in Procs |-> "none"]
    /\ uploads = 0
    /\ \/ /\ ls \in UploadStorages
          /\ assistants = [a \in {} |-> <<>>]
          /\ nAssistants = 0 /\ nVectorStores = 0
       \/ /\ ls = KnownAssistant
          /\ assistants = [a \in {1} |-> <<>>]
          /\ nAssistants = 1 /\ nVectorStores = 0
       \/ /\ ls = KnownAssistant
          /\ assistants = [a \in {1} |-> <<1>>]
          /\ nAssistants = 1 /\ nVectorStores = 1

UploadNext ==
    \/ \E p \in Procs : StartUpload(p, 1, MaxUploads)
    \/ \E p \in Procs : GeminiUpload(p)
    \/ \E p \in Procs : Retrieve(p)
    \/ \E p \in Procs : EnsureRetrieve(p)
    \/ \E p \in Procs : EnsureCreate(p)
    \/ \E p \in Procs : EnsureUpdate(p)
    \/ \E p \in Procs : CreateVectorStore(p)
    \/ \E p \in Procs : CreateAssistant(p)
    \/ \E p \in Procs : FilesCreate(p)
    \/ \E p \in Procs : VsFilesCreate(p)
    \/ \E p \in Procs : VendorProcess(p)
    \/ \E p \in Procs : Poll(p)
    \/ \E p \in Procs : IngestEnd(p)
    \/ \E p \in Procs : UploadDone(p)
    \/ VendorDeleteAssistant

SpecUpload == UploadInit /\ [][UploadNext]_vars

\* getOrCreateAssistant has returned to handleOpenAIUpload
EnsureReturned(p) == up[p].assistantId # NoHandle

\* C6: a call of getOrCreateAssistant by a single-threaded caller with a pair
\* that an earlier call returned, whose assistant still exists at the vendor,
\* returns that pair and creates nothing.
EnsureIdempotent ==
    \A p \in Procs :
        ( /\ EnsureReturned(p)
          /\ ~up[p].overlapped
          /\ up[p].assistantIdParam # NoHandle
          /\ up[p].vectorStoreIdParam # NoHandle
          /\ up[p].assistantIdParam \in DOMAIN assistants )
        => /\ up[p].assistantId = up[p].assistantIdParam
           /\ up[p].vectorStoreId = up[p].vectorStoreIdParam
           /\ up[p].madeA = {} /\ up[p].madeV = {}

\* C7: when the vendor reports the assistant handle as not found, the error
\* never reaches the response, and the pair getOrCreateAssistant returns is
\* one it created in this call, the new assistant attached to the new store.
SelfHealing ==
    \A p \in Procs :
        up[p].retrieved = "notfound" =>
            /\ up[p].pc # "responded" \/ up[p].result.error # UploadError(NotFoundError).error
            /\ up[p].pc \in {"create_vs", "create_assistant", "files_create",
                             "vs_files_create", "poll", "responded"}
            /\ (up[p].pc = "responded" /\ ~EnsureReturned(p)) =>
                   \E f \in VendorFaults : up[p].result = UploadError(f)
            /\ EnsureReturned(p) =>
                   /\ up[p].assistantId \in up[p].madeA
                   /\ up[p].vectorStoreId \in up[p].madeV
                   /\ up[p].assistantId \in DOMAIN assistants =>
                          assistants[up[p].assistantId] = <<up[p].vectorStoreId>>

SelfHealingWitness ==
    \E p \in Procs :
        /\ up[p].retrieved = "notfound"
        /\ up[p].pc = "responded"
        /\ up[p].result.status = 200
        /\ up[p].assistantId \in DOMAIN assistants

\* C29: a call of getOrCreateAssistant whose assistant handle was retrieved
\* and still exists returns that assistant; with a store handle it returns
\* that handle and creates nothing; without one it returns the store the
\* assistant has attached, creating nothing, or creates one store and leaves
\* the assistant attached to it.
EnsureWithAssistant ==
    \A p \in Procs :
        ( /\ EnsureReturned(p)
          /\ ~up[p].overlapped
          /\ up[p].retrieved = "found"
          /\ up[p].assistantIdParam \in DOMAIN assistants )
        => /\ up[p].assistantId = up[p].assistantIdParam
           /\ up[p].madeA = {}
           /\ up[p].vectorStoreIdParam # NoHandle =>
                  up[p].vectorStoreId = up[p].vectorStoreIdParam /\ up[p].madeV = {}
           /\ up[p].vectorStoreIdParam = NoHandle =>
                  /\ assistants[up[p].assistantIdParam] = <<up[p].vectorStoreId>>
                  /\ up[p].madeV \in {{}, {up[p].vectorStoreId}}

\* C35: a call of getOrCreateAssistant whose handle the vendor retrieved
\* creates no assistant and returns that handle, also when a later step of
\* the call fails; and a retrieval that fails with anything but "not found"
\* creates nothing: the failure is what the caller gets.
RetrievedAssistantKept ==
    \A p \in Procs :
        /\ up[p].retrieved = "found" =>
               /\ up[p].madeA = {}
               /\ EnsureReturned(p) => up[p].assistantId = up[p].assistantIdParam
        /\ up[p].retrieved = "error" =>
               up[p].madeA = {} /\ up[p].madeV = {}

\* C36: the response of an OpenAI upload request whose getOrCreateAssistant
\* returned carries every assistant and vector store the call created, also
\* when the ingestion that followed failed, so that the browser can store
\* them and the next upload creates none.
CreatedIsReported ==
    \A p \in Procs :
        (up[p].pc = "responded" /\ EnsureReturned(p)) =>
            /\ up[p].madeA \subseteq {up[p].result.assistantId}
            /\ up[p].madeV \subseteq {up[p].result.vectorStoreId}

\* the timer of the polling loop fires and the vendor call after it settles,
\* and the code after the loop runs: the event loop leaves neither waiting
FairSpecUpload ==
    /\ SpecUpload
    /\ \A p \in Procs : WF_vars(Poll(p)) /\ WF_vars(IngestEnd(p))

\* uploadFileToVectorStore is in its polling loop or just past it
InIngestLoop(p) == up[p].pc = "poll"

\* the steps of uploadFileToVectorStore follow one another: the attachment is
\* asked for after the upload of the bytes, the loop is entered after the
\* attachment, a status is retrieved only while the last one read is
\* in_progress, and with any other status the next step of the call ends it
IngestSteps ==
    [][\A p \in Procs :
         /\ (up'[p].pc = "vs_files_create" /\ up[p].pc # "vs_files_create")
               => up[p].pc = "files_create"
         /\ (InIngestLoop(p)' /\ ~InIngestLoop(p))
               => up[p].pc = "vs_files_create" /\ up'[p].polls = 0
         /\ (InIngestLoop(p) /\ up'[p].polls # up[p].polls /\ InIngestLoop(p)')
               => up[p].status = "in_progress" /\ up'[p].polls = up[p].polls + 1
         /\ (InIngestLoop(p) /\ up[p].status # "in_progress" /\ up'[p] # up[p])
               => up'[p].pc = "responded" /\ up'[p].polls = up[p].polls]_vars

\* once the vendor's status of the attachment has left in_progress the call
\* ends: no call stays in the loop for ever with such a status at the vendor
IngestEnds ==
    \A p \in Procs :
        []<>~(InIngestLoop(p) /\ vsFile[p] # "in_progress")

\* C32: uploadFileToVectorStore uploads the bytes, attaches the file, then
\* polls, in that order; it retrieves no status after the first one that is
\* not in_progress and ends at once; and when the vendor's status leaves
\* in_progress the call ends.
IngestOrderAndEnd == IngestSteps /\ IngestEnds

\* a call whose attachment started in_progress polled, read the status the
\* vendor moved to, and ended
IngestOrderAndEndWitness ==
    \E p \in Procs :
        /\ up[p].pc = "responded"
        /\ up[p].polls > 0
        /\ up[p].status \notin {"in_progress", "none"}
        /\ vsFile[p] = up[p].status

----------------------------------------------------------------------------
(* SpecUploadRace: every upload slot of the browser sends one request, all  *)
(* in flight at a time; the vendor keeps the assistants it has.             *)

RaceInit ==
    /\ ChatIdle /\ LinkIdle /\ ReaderIdle /\ ConvIdle /\ FilesIdle
    /\ up = [p \in Procs |-> IdleUpload]
    /\ vsFile = [p \in Procs |-> "none"]
    /\ uploads = 0
    /\ \/ /\ ls = [EmptyStorage EXCEPT !.provider = "openai", !.openaiKey = "k"]
          /\ assistants = [a \in {} |-> <<>>]
          /\ nAssistants = 0 /\ nVectorStores = 0
       \/ /\ ls = KnownAssistant
          /\ assistants = [a \in {1} |-> <<>>]
          /\ nAssistants = 1 /\ nVectorStores = 0

RaceNext ==
    \/ \E p \in Procs : StartUpload(p, Cardinality(Procs), Cardinality(Procs))
    \/ \E p \in Procs : Retrieve(p)
    \/ \E p \in Procs : EnsureRetrieve(p)
    \/ \E p \in Procs : EnsureCreate(p)
    \/ \E p \in Procs : EnsureUpdate(p)
    \/ \E p \in Procs : CreateVectorStore(p)
    \/ \E p \in Procs : CreateAssistant(p)
    \/ \E p \in Procs : FilesCreate(p)
    \/ \E p \in Procs : VsFilesCreate(p)
    \/ \E p \in Procs : VendorProcess(p)
    \/ \E p \in Procs : Poll(p)
    \/ \E p \in Procs : IngestEnd(p)
    \/ \E p \in Procs : UploadDone(p)

SpecUploadRace == RaceInit /\ [][RaceNext]_vars

\* C8: two concurrent uploads that both lack handles create at most one
\* assistant and one vector store between them and obtain the same pair.
ConcurrentCreationIdempotent ==
    (\A p \in Procs : EnsureReturned(p) /\ up[p].assistantIdParam = NoHandle) =>
        /\ Cardinality(UNION {up[p].madeA : p \in Procs}) <= 1
        /\ Cardinality(UNION {up[p].madeV : p \in Procs}) <= 1
        /\ \A p, q \in Procs :
              /\ up[p].assistantId = up[q].assistantId
              /\ up[p].vectorStoreId = up[q].vectorStoreId

\* uploadFileToVectorStore has ended for the request, by return or by throw
IngestEnded(p) == up[p].pc = "responded" /\ up[p].status # "none"

\* C9: uploadFileToVectorStore returns only when the vendor reports
\* "completed"; on any other status that ends the polling it throws an error
\* that carries the status string; it never returns on "in_progress".
IngestTerminal ==
    \A p \in Procs :
        IngestEnded(p) =>
            /\ up[p].result.status = 200 =>
                   up[p].status = "completed" /\ vsFile[p] = "completed"
            /\ up[p].status \notin {"completed", "in_progress"} =>
                   /\ up[p].result = UploadError(<<"File processing failed: ", up[p].status>>)
                   /\ vsFile[p] = up[p].status
            /\ up[p].status = "in_progress" =>
                   \E f \in VendorFaults : up[p].result = UploadError(f)

IngestTerminalWitness ==
    \E p \in Procs :
        /\ IngestEnded(p)
        /\ up[p].polls >= 1
        /\ up[p].status = "cancelled"
        /\ up[p].result.status = 500

\* C30: whatever the interleaving of the calls of getOrCreateAssistant, every
\* assistant it created or updated has at most one vector store attached.
OneStorePerAssistant ==
    \A a \in DOMAIN assistants :
        /\ Len(assistants[a]) <= 1
        /\ (\E p \in Procs : a \in up[p].madeA) => Len(assistants[a]) = 1

\* two overlapping calls each created a store for the same assistant
OneStorePerAssistantWitness ==
    /\ nVectorStores = 2 /\ nAssistants = 1
    /\ \A p \in Procs : up[p].overlapped /\ up[p].assistantId = 1
    /\ \E p, q \in Procs : up[p].vectorStoreId = 1 /\ up[q].vectorStoreId = 2
    /\ Len(assistants[1]) = 1

----------------------------------------------------------------------------
(* SpecValidate: requests to POST /api/validate-key, one after another.     *)

MaxValidations == 2

\* what the apiKey field of the body can hold
ApiKeyValues == {"undefined", "null", "empty string", "string", "zero", "number", "object"}

\* !apiKey
IsFalsy(v) == v \in {"undefined", "null", "empty string", "zero"}

\* typeof apiKey !== "string"
IsNotString(v) == v \notin {"empty string", "string"}

ValidateBodies ==
    [json : {"ok"}, apiKey : ApiKeyValues, provider : {"openai", "gemini", "cohere", "absent"}]
    \cup {[NoBody EXCEPT !.json = "bad"]}

\* what a vendor call can throw: the status (Undef when the error has none),
\* the markers its message includes, and the code
VendorErrors ==
    { [status |-> 429, includes |-> {}, code |-> "rate_limit_exceeded"],
      [status |-> 401, includes |-> {"invalid_api_key"}, code |-> "invalid_api_key"],
      [status |-> 401, includes |-> {}, code |-> "none"],
      [status |-> 400, includes |-> {"API_KEY_INVALID"}, code |-> "none"],
      [status |-> 403, includes |-> {"PERMISSION_DENIED"}, code |-> "none"],
      [status |-> 500, includes |-> {}, code |-> "none"],
      [status |-> Undef, includes |-> {}, code |-> "none"] }

\* request.json() rejects with a SyntaxError
BodySyntaxError == [status |-> Undef, includes |-> {}, code |-> "none"]

IsUnauthorized(error) == error.status = 401

\* error.status === 429
IsRateLimited(error) == error.status = 429

\* the message the catch block picks
ValidationMessage(error) ==
    IF "API_KEY_INVALID" \in error.includes THEN "Gemini API key is invalid"
    ELSE IF "invalid_api_key" \in error.includes \/ error.code = "invalid_api_key"
         THEN "OpenAI API key is invalid"
    ELSE IF "PERMISSION_DENIED" \in error.includes
         THEN "API key doesn't have required permissions"
    ELSE "Invalid API key"

\* the catch block of POST
ValidateCatch(error) ==
    IF IsRateLimited(error)
    THEN [status |-> 200, valid |-> TRUE, warning |-> "Rate limited, but key is valid",
          error |-> ""]
    ELSE [status |-> 400, valid |-> FALSE, warning |-> "", error |-> ValidationMessage(error)]

validateOther == <<chatVars, linkVars, readVars, convVars, ls,
                   up, assistants, nAssistants, nVectorStores, vsFile, uploads,
                   attached, fileObjects, rm, lst, lr, geminiFiles>>

\* a request arrives
ValidateStart ==
    /\ vk.pc \in {"idle", "done"}
    /\ vk.made < MaxValidations
    /\ \E body \in ValidateBodies :
          vk' = [IdleValidate EXCEPT !.pc = "POST", !.body = body, !.made = vk.made + 1]
    /\ UNCHANGED validateOther

\* POST down to the vendor call
ValidatePost ==
    /\ vk.pc = "POST"
    /\ IF vk.body.json = "bad" THEN
            vk' = [vk EXCEPT !.pc = "done", !.thrown = BodySyntaxError,
                             !.resp = ValidateCatch(BodySyntaxError)]
       ELSE IF IsFalsy(vk.body.apiKey) \/ IsNotString(vk.body.apiKey) THEN
            vk' = [vk EXCEPT !.pc = "done",
                             !.resp = [NoAnswer EXCEPT !.status = 400,
                                                       !.error = "API key required"]]
       ELSE IF vk.body.provider = "openai" THEN
            vk' = [vk EXCEPT !.pc = "vendor", !.calls = Append(@, "models.list")]
       ELSE vk' = [vk EXCEPT !.pc = "vendor", !.calls = Append(@, "generateContent")]
    /\ UNCHANGED validateOther

\* the vendor call settles
ValidateVendor ==
    /\ vk.pc = "vendor"
    /\ \/ vk' = [vk EXCEPT !.pc = "done", !.resp = [NoAnswer EXCEPT !.status = 200,
                                                                     !.valid = TRUE]]
       \/ \E error \in VendorErrors :
             vk' = [vk EXCEPT !.pc = "done", !.thrown = error, !.resp = ValidateCatch(error)]
    /\ UNCHANGED validateOther

ValidateInit ==
    /\ ChatIdle /\ LinkIdle /\ ReaderIdle /\ ConvIdle /\ ls = EmptyStorage /\ UploadIdle

ValidateNext ==
    \/ ValidateStart
    \/ ValidatePost
    \/ ValidateVendor

SpecValidate == ValidateInit /\ [][ValidateNext]_vars

\* C23: in key validation a vendor failure of status 429 is answered as a
\* valid key with a warning, any other vendor failure as an error of status
\* 400, and a key that is missing or no string is refused with status 400
\* before any vendor call.
RateLimitedIsValid ==
    vk.pc = "done" =>
        /\ (vk.body.json = "ok" /\ vk.body.apiKey # "string") =>
               /\ vk.calls = <<>>
               /\ vk.resp.status = 400 /\ vk.resp.error = "API key required"
               /\ ~vk.resp.valid
        /\ (vk.calls # <<>> /\ vk.thrown.status = 429) =>
               /\ vk.resp.status = 200 /\ vk.resp.valid
               /\ vk.resp.warning # "" /\ vk.resp.error = ""
        /\ (vk.calls # <<>> /\ vk.thrown # NoOutcome /\ vk.thrown.status # 429) =>
               /\ vk.resp.status = 400 /\ ~vk.resp.valid /\ vk.resp.error # ""

RateLimitedIsValidWitness ==
    /\ vk.pc = "done" /\ vk.made = 2
    /\ vk.calls = <<"models.list">>
    /\ vk.thrown.status = 429
    /\ vk.resp.valid /\ vk.resp.status = 200

----------------------------------------------------------------------------
(* SpecDecoder: the read loop of handleSubmit on a stream of any lines, each *)
(* read returning whole lines.                                              *)

MaxLines == 3

GoodTextLine == <<"0", ":", QUOTE, "a", QUOTE>>

GoodUsageLine == <<"2", ":">> \o JsonStringifyUsage(1, 2, <<"m">>, NoThread)

UnknownMarkerLine == <<"3", ":", QUOTE, "x", QUOTE>>

BadTextLine == <<"0", ":", QUOTE, "a">>

BadUsageLine == <<"2", ":", "{">>

DecoderLines == {GoodTextLine, GoodUsageLine, UnknownMarkerLine, BadTextLine, BadUsageLine}

EncodedLine(line) == Utf8Encode(line \o <<NL>>)

DecoderInit ==
    /\ req = [EmptyRequest EXCEPT !.messages = <<[role |-> "user", content |-> <<"q">>]>>,
                                  !.apiKey = "k", !.provider = "gemini", !.model = <<"m">>]
    /\ srvPc = "done" /\ invoked = <<"gemini">> /\ resp = StreamResp
    /\ \E k \in 0..MaxLines : \E lines \in [1..k -> DecoderLines] :
          wire = [i \in 1..k |-> EncodedLine(lines[i])]
    /\ streamState = "closed" /\ totalIn = 0 /\ totalOut = 0
    /\ currentThreadId = NoThread
    /\ vendorStream = <<>> /\ upstream = <<>> /\ threads = NoThreads
    /\ session = [docs |-> <<"none">>, history |-> GroundingTurns(<<>>), message |-> <<"q">>]
    /\ vendorCalls = <<"files.list", "sendMessageStream">>
    /\ LinkIdle
    /\ cliPc = "reading" /\ assistantContent = <<>> /\ utf8Pending = <<>>
    /\ tracked = <<>> /\ devLog = <<>>
    /\ chatMessages = <<[id |-> <<"user", 1>>, role |-> "user", content |-> <<"q">>],
                        [id |-> <<"assistant", 1>>, role |-> "assistant", content |-> <<>>]>>
    /\ isLoading = TRUE /\ turns = 1 /\ assistantMsgId = <<"assistant", 1>>
    /\ currentMessages = <<[id |-> <<"user", 1>>, role |-> "user", content |-> <<"q">>]>>
    /\ ls = [EmptyStorage EXCEPT !.geminiKey = "k"]
    /\ UploadIdle

DecoderNext ==
    \/ DeliverFrames
    \/ DeliverWhole
    \/ ClientRead
    \/ ClientReadDone

SpecDecoder == DecoderInit /\ [][DecoderNext]_vars

\* the lines of the stream that are the given line
Occurrences(line) == {i \in 1..Len(wire) : wire[i] = EncodedLine(line)}

ParseErrorLogs == {"Parse error on line", "Usage parse error"}

\* the good frames of the stream were all applied
GoodFramesApplied ==
    /\ assistantContent = [i \in 1..Cardinality(Occurrences(GoodTextLine)) |-> "a"]
    /\ tracked = [i \in 1..Cardinality(Occurrences(GoodUsageLine)) |->
                     [inputTokens |-> 1, outputTokens |-> 2, model |-> <<"m">>]]

\* C19: the client decoder logs and skips a line with an unrecognized marker,
\* skips a line with a known marker and a malformed payload, and applies
\* every well-formed frame of the stream, those after a bad line included.
DecoderSkipsBadLines ==
    cliPc = "done" =>
        /\ GoodFramesApplied
        /\ Cardinality({i \in 1..Len(devLog) : devLog[i] \notin ParseErrorLogs})
               = Cardinality(Occurrences(UnknownMarkerLine))

\* what the read loop does keep: bad lines are skipped, the parse errors of
\* known markers are the only log entries, and the good frames are applied
DecoderKeepsGoing ==
    cliPc = "done" =>
        /\ GoodFramesApplied
        /\ Len(devLog) = Cardinality(Occurrences(BadTextLine))
                             + Cardinality(Occurrences(BadUsageLine))

----------------------------------------------------------------------------
(* SpecFiles: the file helpers of the assistants library against one vector  *)
(* store.  One action is the code between two awaits of a helper.            *)

MaxFiles == 3

\* vectorStores.files.list is called with the store id only, so the vendor
\* answers with one page of its default length; files.data is that page
PageLimit == 2

FileIds == 1..MaxFiles

AttachmentStatuses == {"completed", "failed"}

VsFileId(f) == <<"vsf", f>>

Filename(f) == <<"doc", f>>

CreatedAt(f) == 1000 + f

\* a set of file ids in the vendor's listing order, newest first
NewestFirst(S) ==
    CHOOSE s \in [1..Cardinality(S) -> S] :
        \A i, j \in 1..Cardinality(S) : i < j => s[i] > s[j]

FirstPage(all) ==
    SubSeq(all, 1, IF Len(all) < PageLimit THEN Len(all) ELSE PageLimit)

\* files.data.find(f => f.file_id === fileId)
FindVsFile(data, fileId) ==
    IF \E i \in 1..Len(data) : data[i].file_id = fileId
    THEN LET i == CHOOSE k \in 1..Len(data) :
                      /\ data[k].file_id = fileId
                      /\ \A m \in 1..(k - 1) : data[m].file_id # fileId
         IN  data[i].id
    ELSE NoVsFile

FileRecord(vf) ==
    [id |-> vf.id, fileId |-> vf.file_id, name |-> Filename(vf.file_id),
     status |-> vf.status, createdAt |-> CreatedAt(vf.file_id)]

UnknownRecord(vf) ==
    [id |-> vf.id, fileId |-> vf.file_id, name |-> <<"Unknown">>,
     status |-> vf.status, createdAt |-> 0]

Pending == [id |-> <<>>, fileId |-> 0, name |-> <<>>, status |-> "pending", createdAt |-> 0]

fileOther == <<chatVars, linkVars, readVars, convVars, ls,
               up, assistants, nAssistants, nVectorStores, vsFile, uploads, vk, lr, geminiFiles>>

routeOther == <<chatVars, linkVars, readVars, convVars, ls,
                up, assistants, nAssistants, nVectorStores, vsFile, uploads, vk, geminiFiles>>

HelperFree == rm.pc \in {"idle", "returned", "rejected"}
              /\ lst.pc \in {"idle", "returned", "rejected"}
              /\ lr.pc \in {"idle", "responded"}

\* the store the vendor holds, and the handle of one it holds no longer
HeldStore == NoHandle + 1
GoneStore == HeldStore + 1

\* deleteVectorStoreFile(openai, vectorStoreId, fileId) is called
StartRemove(f) ==
    /\ HelperFree
    /\ rm' = [pc |-> "list", fileId |-> f, vsFile |-> NoVsFile]
    /\ lst' = IdleList /\ lr' = IdleListRoute
    /\ UNCHANGED <<attached, fileObjects, routeOther>>

\* await vectorStores.files.list, then find
RemoveList ==
    /\ rm.pc = "list"
    /\ \/ rm' = [rm EXCEPT !.pc = "rejected"]
       \/ LET found == FindVsFile(FirstPage(attached), rm.fileId)
          IN  rm' = [rm EXCEPT !.vsFile = found,
                               !.pc = IF found # NoVsFile THEN "detach" ELSE "delete"]
    /\ UNCHANGED <<attached, fileObjects, lst, fileOther>>

\* if (vsFile) await vectorStores.files.del(vectorStoreId, vsFile.id)
RemoveDetach ==
    /\ rm.pc = "detach"
    /\ \/ /\ rm' = [rm EXCEPT !.pc = "rejected"]
          /\ UNCHANGED attached
       \/ /\ attached' = SelectSeq(attached, LAMBDA vf : vf.id # rm.vsFile)
          /\ rm' = [rm EXCEPT !.pc = "delete"]
    /\ UNCHANGED <<fileObjects, lst, fileOther>>

\* await openai.files.delete(fileId)
RemoveDelete ==
    /\ rm.pc = "delete"
    /\ \/ /\ rm' = [rm EXCEPT !.pc = "rejected"]
          /\ UNCHANGED fileObjects
       \/ /\ rm.fileId \in fileObjects
          /\ fileObjects' = fileObjects \ {rm.fileId}
          /\ rm' = [rm EXCEPT !.pc = "returned"]
    /\ UNCHANGED <<attached, lst, fileOther>>

\* listVectorStoreFiles(openai, vectorStoreId) is called
StartList ==
    /\ HelperFree
    /\ lst' = [pc |-> "list", files |-> <<>>, fileDetails |-> <<>>]
    /\ rm' = IdleRemove /\ lr' = IdleListRoute
    /\ UNCHANGED <<attached, fileObjects, routeOther>>

\* await vectorStores.files.list; Promise.all starts one lookup per entry
ListFiles ==
    /\ lst.pc = "list"
    /\ \/ lst' = [lst EXCEPT !.pc = "rejected"]
       \/ /\ lr.pc = "listing" => lr.vectorStoreId = HeldStore
          /\ lst' = [pc |-> "details", files |-> FirstPage(attached),
                     fileDetails |-> [i \in 1..Len(FirstPage(attached)) |-> Pending]]
    /\ UNCHANGED <<attached, fileObjects, rm, fileOther>>

\* one callback of the map: files.retrieve, or its catch
ListDetail(i) ==
    /\ lst.pc = "details"
    /\ i \in 1..Len(lst.files)
    /\ lst.fileDetails[i] = Pending
    /\ \/ /\ lst.files[i].file_id \in fileObjects
          /\ lst' = [lst EXCEPT !.fileDetails[i] = FileRecord(lst.files[i])]
       \/ lst' = [lst EXCEPT !.fileDetails[i] = UnknownRecord(lst.files[i])]
    /\ UNCHANGED <<attached, fileObjects, rm, fileOther>>

\* Promise.all has settled: return fileDetails
ListReturn ==
    /\ lst.pc = "details"
    /\ \A i \in 1..Len(lst.files) : lst.fileDetails[i] # Pending
    /\ lst' = [lst EXCEPT !.pc = "returned"]
    /\ UNCHANGED <<attached, fileObjects, rm, fileOther>>

\* what the vendor's listing can fail with: the store is not found, the key
\* is refused, the connection fails
StoreNotFound == [status |-> 404, message |-> <<"No vector store found">>]

ListFaults == { [status |-> 401, message |-> <<"invalid_api_key">>],
                [status |-> Undef, message |-> <<"Connection error.">>] }

ListErrors(vectorStoreId) ==
    IF vectorStoreId = HeldStore THEN ListFaults ELSE ListFaults \cup {StoreNotFound}

\* the catch block of GET
ListGETCatch(e) ==
    IF e.message = <<"invalid_api_key">> \/ e.message = <<"API_KEY_INVALID">>
    THEN [NoListing EXCEPT !.status = 401, !.error = "Invalid API key"]
    ELSE [NoListing EXCEPT !.status = 500, !.error = "Failed to fetch files"]

\* files.map(f => ({uri: f.id, name: f.name, state: ..., ...})); createTime is
\* the instant createdAt * 1000, in milliseconds
FormattedFiles(files) ==
    [i \in 1..Len(files) |->
        [uri |-> files[i].id, name |-> files[i].name,
         createTime |-> files[i].createdAt * 1000,
         state |-> IF files[i].status = "completed" THEN "ACTIVE" ELSE files[i].status]]

\* a catch of handleOpenAIList that rethrows whatever it caught
handleOpenAIListRethrow ==
    /\ lr.pc = "listing" /\ lst.pc = "rejected"
    /\ \E e \in ListErrors(lr.vectorStoreId) :
         lr' = [lr EXCEPT !.pc = "responded", !.thrown = e, !.resp = ListGETCatch(e)]
    /\ lst' = IdleList
    /\ UNCHANGED <<attached, fileObjects, rm, routeOther>>

\* GET down to the first await: the key test, then handleOpenAIList down to
\* the call of listVectorStoreFiles, or handleGeminiList down to listFiles
ListGET(apiKey, provider, vectorStoreId) ==
    /\ HelperFree
    /\ rm' = IdleRemove
    /\ LET r == [IdleListRoute EXCEPT !.apiKey = apiKey, !.provider = provider,
                                      !.vectorStoreId = vectorStoreId]
       IN IF apiKey = ""
          THEN /\ lr' = [r EXCEPT !.pc = "responded",
                                  !.resp = [NoListing EXCEPT !.status = 400,
                                                             !.error = "No API key configured"]]
               /\ lst' = IdleList
          ELSE IF provider # "openai"
          THEN /\ lr' = [r EXCEPT !.pc = "gemini_list"]
               /\ lst' = IdleList
          ELSE IF vectorStoreId = NoHandle
          THEN /\ lr' = [r EXCEPT !.pc = "responded",
                                  !.resp = [NoListing EXCEPT !.status = 200,
                                                             !.message = "No vector store created yet"]]
               /\ lst' = IdleList
          ELSE /\ lr' = [r EXCEPT !.pc = "listing", !.asked = TRUE]
               /\ lst' = [pc |-> "list", files |-> <<>>, fileDetails |-> <<>>]
    /\ UNCHANGED <<attached, fileObjects, routeOther>>

\* handleOpenAIList: listVectorStoreFiles returned
handleOpenAIListReturn ==
    /\ lr.pc = "listing" /\ lst.pc = "returned"
    /\ lr' = [lr EXCEPT !.pc = "responded",
                        !.resp = [NoListing EXCEPT !.status = 200,
                                                   !.files = FormattedFiles(lst.fileDetails)]]
    /\ lst' = IdleList
    /\ UNCHANGED <<attached, fileObjects, rm, routeOther>>

\* handleOpenAIList: catch (e) of the listing; 404 is answered here, anything
\* else is thrown on to the catch of GET
handleOpenAIListCatch ==
    /\ lr.pc = "listing" /\ lst.pc = "rejected"
    /\ \E e \in ListErrors(lr.vectorStoreId) :
         lr' = [lr EXCEPT !.pc = "responded", !.thrown = e,
                          !.resp = IF e.status = 404
                                   THEN [NoListing EXCEPT !.status = 200,
                                                          !.message = "Vector store not found"]
                                   ELSE ListGETCatch(e)]
    /\ lst' = IdleList
    /\ UNCHANGED <<attached, fileObjects, rm, routeOther>>

\* handleGeminiList: fileManager.listFiles() and the answer, or the catch of GET
handleGeminiList ==
    /\ lr.pc = "gemini_list"
    /\ \/ lr' = [lr EXCEPT !.pc = "responded",
                           !.resp = [NoListing EXCEPT
                                       !.status = 200,
                                       !.files = [i \in 1..Len(GeminiFirstPage(geminiFiles)) |->
                                                    [name |-> GeminiFirstPage(geminiFiles)[i].displayName,
                                                     state |-> GeminiFirstPage(geminiFiles)[i].state]]]]
       \/ \E e \in ListFaults :
            lr' = [lr EXCEPT !.pc = "responded", !.thrown = e, !.resp = ListGETCatch(e)]
    /\ UNCHANGED <<attached, fileObjects, rm, lst, routeOther>>

FilesInit ==
    /\ ChatIdle /\ LinkIdle /\ ReaderIdle /\ ConvIdle /\ ls = EmptyStorage
    /\ up = [p \in Procs |-> IdleUpload]
    /\ assistants = [a \in {} |-> <<>>]
    /\ nAssistants = 0 /\ nVectorStores = 0
    /\ vsFile = [p \in Procs |-> "none"]
    /\ uploads = 0
    /\ rm = IdleRemove /\ lst = IdleList /\ vk = IdleValidate /\ lr = IdleListRoute
    /\ geminiFiles = <<>>
    /\ fileObjects \in SUBSET FileIds
    /\ \E S \in SUBSET FileIds : \E st \in [S -> AttachmentStatuses] :
          attached = [i \in 1..Cardinality(S) |->
                         [id |-> VsFileId(NewestFirst(S)[i]),
                          file_id |-> NewestFirst(S)[i],
                          status |-> st[NewestFirst(S)[i]]]]

FilesNext ==
    \/ \E f \in FileIds : StartRemove(f)
    \/ RemoveList
    \/ RemoveDetach
    \/ RemoveDelete
    \/ StartList
    \/ ListFiles
    \/ \E i \in 1..MaxFiles : ListDetail(i)
    \/ ListReturn
    \/ \E apiKey \in {"", "k"}, provider \in {"openai", "gemini"},
          vectorStoreId \in {NoHandle, HeldStore, GoneStore} :
            ListGET(apiKey, provider, vectorStoreId)
    \/ handleOpenAIListReturn
    \/ handleOpenAIListCatch
    \/ handleGeminiList

SpecFiles == FilesInit /\ [][FilesNext]_vars

AttachedFileIds == {attached[i].file_id : i \in 1..Len(attached)}

\* C17: deleteVectorStoreFile detaches the file from the store before it
\* deletes the file object: no step deletes a file object that is still
\* attached to the store, and a failed detach leaves the file object alone.
DetachBeforeDelete ==
    [][/\ \A f \in fileObjects \ fileObjects' : f \notin AttachedFileIds
       /\ (rm.pc = "detach" /\ rm'.pc = "rejected") => fileObjects' = fileObjects]_vars
\* C18: listVectorStoreFiles returns one record per file attached to the
\* store, in the vendor's order; a file whose metadata lookup fails gets the
\* placeholder record (name "Unknown", createdAt 0, status of the attachment)
\* and the other records are the full ones.
ListingComplete ==
    lst.pc = "returned" =>
        /\ Len(lst.fileDetails) = Len(attached)
        /\ \A i \in 1..Len(attached) :
              /\ lst.fileDetails[i] \in {FileRecord(attached[i]), UnknownRecord(attached[i])}
              /\ attached[i].file_id \notin fileObjects =>
                     lst.fileDetails[i] = UnknownRecord(attached[i])


\* C39: a listing for the OpenAI provider does not fail on its store handle:
\* without a handle the answer is an empty list with a message and the vendor
\* is not called; with a handle the vendor answers 404 for, the answer is an
\* empty list with a message; any other failure of the vendor is answered
\* with an error text and an empty list.
ListingSurvivesHandle ==
    (lr.pc = "responded" /\ lr.provider = "openai" /\ lr.apiKey # "") =>
        /\ lr.vectorStoreId = NoHandle =>
               /\ ~lr.asked /\ lr.thrown = NoListError
               /\ lr.resp.status = 200 /\ lr.resp.files = <<>>
               /\ lr.resp.message # "" /\ lr.resp.error = ""
        /\ lr.thrown.status = 404 =>
               /\ lr.resp.status = 200 /\ lr.resp.files = <<>>
               /\ lr.resp.message # "" /\ lr.resp.error = ""
        /\ (lr.thrown # NoListError /\ lr.thrown.status # 404) =>
               /\ lr.resp.status \in {401, 500} /\ lr.resp.files = <<>>
               /\ lr.resp.error # ""
        /\ lr.resp.status # 200 => lr.thrown # NoListError /\ lr.thrown.status # 404

\* a listing with the handle of a store the vendor holds no longer was
\* answered with the empty list
ListingSurvivesHandleWitness ==
    /\ lr.pc = "responded" /\ lr.provider = "openai"
    /\ lr.vectorStoreId = GoneStore /\ lr.thrown = StoreNotFound
    /\ lr.resp.status = 200 /\ lr.resp.files = <<>>

----------------------------------------------------------------------------
(* SpecSettings: the settings page writes the provider and the model, the   *)
(* chat reads them when a turn is submitted.                                *)

\* localStorage.setItem(STORAGE_KEYS.PROVIDER, provider)
setProvider(provider) ==
    /\ ls' = [ls EXCEPT !.provider = provider]
    /\ UNCHANGED <<chatVars, linkVars, readVars, convVars, upVars>>

\* localStorage.setItem(STORAGE_KEYS.MODEL, modelId)
setSelectedModel(modelId) ==
    /\ ls' = [ls EXCEPT !.model = modelId]
    /\ UNCHANGED <<chatVars, linkVars, readVars, convVars, upVars>>

Providers == {"openai", "gemini"}

ModelsOf(provider) == IF provider = "openai" THEN OPENAI_MODELS ELSE GEMINI_MODELS

DefaultOf(provider) == IF provider = "openai" THEN GptMini ELSE GeminiFlash

\* nothing stored, or a model name that no list has
SettingsStorages == { EmptyStorage, [EmptyStorage EXCEPT !.model = <<"m">>] }

SettingsInit ==
    /\ ChatIdle /\ LinkIdle /\ ReaderIdle /\ ConvIdle /\ UploadIdle
    /\ ls \in SettingsStorages

SettingsNext ==
    \/ \E provider \in Providers : setProvider(provider)
    \/ \E modelId \in GEMINI_MODELS \cup OPENAI_MODELS : setSelectedModel(modelId)
    \/ Submit
    \/ FetchFails

SpecSettings == SettingsInit /\ [][SettingsNext]_vars

========================================================================
